---- MODULE Spec2Model ----
(***************************************************************************)
(* Registration funnel (src/src/App.tsx, two deployment variants of the    *)
(* form) and the SMS notification dispatchers (three Deno.serve handlers:  *)
(* src/supabase/functions/send-sms/index.ts and the two handlers of        *)
(* src/unnamed/part_000), coupled through the `registrations` table.       *)
(*                                                                         *)
(* Strings whose characters the code inspects (phone, birth date, names,   *)
(* file names, messages) are sequences of one-character strings.  A value  *)
(* that may be null/undefined is a sequence of length 0 (absent) or 1.     *)
(* Korean literals of the source are written as ASCII tags, a single code  *)
(* point outside ASCII as its U+ tag.                                      *)
(***************************************************************************)
EXTENDS Integers, Sequences, FiniteSets, TLC

(* ------------------------------ bounds --------------------------------- *)
MaxEdits == 1       \* field edits explored after the initial fill
MaxRows  == 2       \* rows the registrations table may hold
MaxInv   == 2       \* dispatcher invocations (may run concurrently), dispatchers alone
MaxInvWithForm == 1 \* dispatcher invocations explored next to a form submission
MaxTime  == 1       \* distinct clock readings (Date.now / new Date)

(* ------------------------- string primitives --------------------------- *)
Digits == {"0", "1", "2", "3", "4", "5", "6", "7", "8", "9"}

\* the code points String.prototype.trim() and parseInt skip: WhiteSpace (TAB,
\* VT, FF, SP, NBSP, ZWNBSP and the space separators) and LineTerminator (LF,
\* CR, LS, PS); a code point outside ASCII is written as its U+ tag
WhiteSpace ==
  {"\t", "U+000B", "\f", " ", "U+00A0", "U+FEFF",
   "U+1680", "U+2000", "U+2001", "U+2002", "U+2003", "U+2004", "U+2005", "U+2006", "U+2007",
   "U+2008", "U+2009", "U+200A", "U+202F", "U+205F", "U+3000",
   "\n", "\r", "U+2028", "U+2029"}

None == <<>>

Some(x) == <<x>>

Min(a, b) == IF a < b THEN a ELSE b

\* String.prototype.slice(a, b) for 0 <= a, 0 <= b (end exclusive, clamped)
Slice(s, a, b) == SubSeq(s, a + 1, Min(b, Len(s)))

\* value.replace(/\D/g, '')
StripNonDigits(s) == SelectSeq(s, LAMBDA c : c \in Digits)

\* String.prototype.trim()
RECURSIVE TrimLeft(_)
TrimLeft(s) == IF s # <<>> /\ Head(s) \in WhiteSpace THEN TrimLeft(Tail(s)) ELSE s

RECURSIVE TrimRight(_)
TrimRight(s) ==
  IF s # <<>> /\ s[Len(s)] \in WhiteSpace THEN TrimRight(SubSeq(s, 1, Len(s) - 1)) ELSE s

Trim(s) == TrimRight(TrimLeft(s))

DigitVal(c) ==
  CASE c = "0" -> 0 [] c = "1" -> 1 [] c = "2" -> 2 [] c = "3" -> 3 [] c = "4" -> 4
    [] c = "5" -> 5 [] c = "6" -> 6 [] c = "7" -> 7 [] c = "8" -> 8 [] c = "9" -> 9

RECURSIVE LeadingDigits(_)
LeadingDigits(s) ==
  IF s # <<>> /\ Head(s) \in Digits THEN <<Head(s)>> \o LeadingDigits(Tail(s)) ELSE <<>>

RECURSIVE DecimalValue(_)
DecimalValue(ds) ==
  IF ds = <<>> THEN 0 ELSE 10 * DecimalValue(SubSeq(ds, 1, Len(ds) - 1)) + DigitVal(ds[Len(ds)])

\* parseInt(s) on an unsigned string: the value of the leading digits, NaN
\* (absent) when there are none
parseInt(s) ==
  LET ds == LeadingDigits(TrimLeft(s)) IN IF ds = <<>> THEN None ELSE Some(DecimalValue(ds))

\* y < n and y > n for a parseInt result; every comparison with NaN is false
NumLt(y, n) == y # None /\ y[1] < n

NumGt(y, n) == y # None /\ y[1] > n

\* s.split(sep)[0]
RECURSIVE SplitFirst(_, _)
SplitFirst(s, sep) ==
  IF s = <<>> \/ Head(s) = sep THEN <<>> ELSE <<Head(s)>> \o SplitFirst(Tail(s), sep)

\* s.split(sep).pop()
RECURSIVE SplitLast(_, _)
SplitLast(s, sep) ==
  IF s = <<>> THEN <<>>
  ELSE IF s[Len(s)] = sep THEN <<>>
  ELSE SplitLast(SubSeq(s, 1, Len(s) - 1), sep) \o <<s[Len(s)]>>

(* ----------------------------- formatPhone ----------------------------- *)
\* formatPhone that keeps the first 12 digits
formatPhone_Keeps12(value) ==
  LET digits == Slice(StripNonDigits(value), 0, 12) IN
    IF Len(digits) <= 3 THEN digits
    ELSE IF Len(digits) <= 7 THEN Slice(digits, 0, 3) \o <<"-">> \o Slice(digits, 3, Len(digits))
    ELSE Slice(digits, 0, 3) \o <<"-">> \o Slice(digits, 3, 7) \o <<"-">> \o Slice(digits, 7, Len(digits))

formatPhone(value) ==
  LET digits == Slice(StripNonDigits(value), 0, 11) IN
    IF Len(digits) <= 3 THEN digits
    ELSE IF Len(digits) <= 7 THEN Slice(digits, 0, 3) \o <<"-">> \o Slice(digits, 3, Len(digits))
    ELSE Slice(digits, 0, 3) \o <<"-">> \o Slice(digits, 3, 7) \o <<"-">> \o Slice(digits, 7, Len(digits))

(* --------------------------- number to text ---------------------------- *)
DigitChars == <<"0", "1", "2", "3", "4", "5", "6", "7", "8", "9">>

\* String(n) / template interpolation of a non-negative integer
RECURSIVE NatToStr(_)
NatToStr(n) == IF n < 10 THEN <<DigitChars[n + 1]>> ELSE NatToStr(n \div 10) \o <<DigitChars[(n % 10) + 1]>>

\* n rendered with at least w digits (the fixed-width fields of a date value)
RECURSIVE PadNat(_, _)
PadNat(n, w) == IF Len(NatToStr(n)) >= w THEN NatToStr(n) ELSE <<"0">> \o PadNat(n, w - 1)

\* new Date(t).toISOString(): a textual timestamp, never empty
toISOString(t) == NatToStr(t) \o <<"Z">>

(* ------------------------------ the form ------------------------------- *)
\* the state of useState({...}) right after construction / openRegistration
EmptyForm(v) ==
  IF v = 1
  THEN [name |-> <<>>, birthDate |-> <<>>, gender |-> "", phone |-> <<>>,
        instagramId |-> <<>>, noInstagram |-> FALSE, height |-> <<>>, weight |-> <<>>]
  ELSE [name |-> <<>>, birthDate |-> <<>>, gender |-> "", eventDate |-> "",
        phone |-> <<>>, location |-> <<>>, job |-> <<>>, height |-> <<>>, weight |-> <<>>,
        instagramId |-> <<>>, noInstagram |-> FALSE,
        charm |-> <<>>, preferredStyle |-> <<>>, participationType |-> "", referralSource |-> <<>>,
        agreeAlcohol |-> FALSE, agreeTerms |-> FALSE, agreePrivacy |-> FALSE, agreeRefund |-> FALSE]

\* BirthError1 with the upper bound of the male range off by one
BirthError1_OffByOne(fd) ==
  LET y == parseInt(SplitFirst(fd.birthDate, "-")) IN
    IF fd.birthDate = <<>> THEN Some("birth_required")
    ELSE IF fd.gender = "male" /\ (NumLt(y, 1993) \/ NumGt(y, 2007)) THEN Some("male_93_06_only")
    ELSE IF fd.gender = "female" /\ (NumLt(y, 1993) \/ NumGt(y, 2007)) THEN Some("female_93_07_only")
    ELSE None

\* the birthDate entry of errors in variant 1 (absent when the field is accepted);
\* later assignments overwrite earlier ones
BirthError1(fd) ==
  LET y == parseInt(SplitFirst(fd.birthDate, "-"))
      e0 == IF fd.birthDate = <<>> THEN Some("birth_required") ELSE None
      e1 == IF fd.birthDate # <<>> /\ fd.gender # "" /\ fd.gender = "male"
               /\ (NumLt(y, 1993) \/ NumGt(y, 2006))
            THEN Some("male_93_06_only") ELSE e0
  IN  IF fd.birthDate # <<>> /\ fd.gender # "" /\ fd.gender = "female"
         /\ (NumLt(y, 1993) \/ NumGt(y, 2007))
      THEN Some("female_93_07_only") ELSE e1

\* the birthDate entry of errors in variant 2
BirthError2(fd) ==
  IF fd.birthDate = <<>> \/ Len(fd.birthDate) # 8 THEN Some("birth_8_digits")
  ELSE LET y == parseInt(Slice(fd.birthDate, 0, 4))
           m == parseInt(Slice(fd.birthDate, 4, 6))
           d == parseInt(Slice(fd.birthDate, 6, 8))
       IN  IF NumLt(y, 1980) \/ NumGt(y, 2010) \/ NumLt(m, 1) \/ NumGt(m, 12)
              \/ NumLt(d, 1) \/ NumGt(d, 31)
           THEN Some("birth_invalid")
           ELSE IF fd.gender = "male" /\ (NumLt(y, 1990) \/ NumGt(y, 2004))
           THEN Some("male_90_04_only")
           ELSE IF fd.gender = "female" /\ (NumLt(y, 1992) \/ NumGt(y, 2005))
           THEN Some("female_92_05_only")
           ELSE None

\* errors as a function from the invalid fields' names to their message (a
\* message is a sequence of text pieces)
validateForm1(fd, body, face) ==
  LET msg == [ name        |-> IF Trim(fd.name) = <<>> THEN Some("name_required") ELSE None,
               gender      |-> IF fd.gender = "" THEN Some("gender_required") ELSE None,
               birthDate   |-> BirthError1(fd),
               phone       |-> IF Len(StripNonDigits(fd.phone)) < 10 THEN Some("phone_invalid") ELSE None,
               instagramId |-> IF ~fd.noInstagram /\ Trim(fd.instagramId) = <<>>
                               THEN Some("instagram_required") ELSE None,
               height      |-> IF Trim(fd.height) = <<>> THEN Some("height_required") ELSE None,
               weight      |-> IF Trim(fd.weight) = <<>> THEN Some("weight_required") ELSE None,
               bodyPhoto   |-> IF body = None THEN Some("body_photo_required") ELSE None,
               facePhoto   |-> IF face = None THEN Some("face_photo_required") ELSE None ]
  IN  [k \in {f \in DOMAIN msg : msg[f] # None} |-> msg[k]]

validateForm2(fd, body, face) ==
  LET msg == [ name        |-> IF Trim(fd.name) = <<>> THEN Some("name_required") ELSE None,
               gender      |-> IF fd.gender = "" THEN Some("gender_required") ELSE None,
               eventDate   |-> IF fd.eventDate = "" THEN Some("event_date_required") ELSE None,
               birthDate   |-> BirthError2(fd),
               phone       |-> IF Len(StripNonDigits(fd.phone)) < 10 THEN Some("phone_invalid") ELSE None,
               location    |-> IF Trim(fd.location) = <<>> THEN Some("location_required") ELSE None,
               job         |-> IF Trim(fd.job) = <<>> THEN Some("job_required") ELSE None,
               height      |-> IF Trim(fd.height) = <<>> THEN Some("height_required") ELSE None,
               weight      |-> IF Trim(fd.weight) = <<>> THEN Some("weight_required") ELSE None,
               instagramId |-> IF ~fd.noInstagram /\ Trim(fd.instagramId) = <<>>
                               THEN Some("instagram_required") ELSE None,
               participationType |-> IF fd.participationType = ""
                               THEN Some("participation_required") ELSE None,
               bodyPhoto   |-> IF body = None THEN Some("body_photo_required") ELSE None,
               facePhoto   |-> IF face = None THEN Some("face_photo_required") ELSE None,
               agreeAlcohol |-> IF ~fd.agreeAlcohol THEN Some("agree_alcohol_required") ELSE None,
               agreeTerms   |-> IF ~fd.agreeTerms THEN Some("agree_terms_required") ELSE None,
               agreePrivacy |-> IF ~fd.agreePrivacy THEN Some("agree_privacy_required") ELSE None,
               agreeRefund  |-> IF ~fd.agreeRefund THEN Some("agree_refund_required") ELSE None ]
  IN  [k \in {f \in DOMAIN msg : msg[f] # None} |-> msg[k]]

\* validateForm that does not look at the refund consent
validateForm_NoRefundConsent(v, fd, body, face) ==
  LET errors == IF v = 1 THEN validateForm1(fd, body, face) ELSE validateForm2(fd, body, face)
  IN  [k \in DOMAIN errors \ {"agreeRefund"} |-> errors[k]]

validateForm(v, fd, body, face) ==
  IF v = 1 THEN validateForm1(fd, body, face) ELSE validateForm2(fd, body, face)

\* Object.keys(errors).length > 0
HasErrors(errors) == DOMAIN errors # {}

NoErrors == [k \in {} |-> <<>>]

(* ------------------------- storage and the row ------------------------- *)
\* const ext = (f) => f.name.split('.').pop() || 'jpg'
ext(f) == LET e == SplitLast(f.name, ".") IN IF e = <<>> THEN <<"j", "p", "g">> ELSE e

\* `${ts}_body.${ext}` / `${ts}_face.${ext}`
ObjectKey(ts, kind, f) == NatToStr(ts) \o <<"_", kind, ".">> \o ext(f)

\* storage.from('registrations').getPublicUrl(path).data.publicUrl
getPublicUrl(path) == <<"https://project.supabase.co/storage/v1/object/public/registrations/">> \o path

\* the object handed to insert() by variant 1
InsertPayload1(fd, bodyUrl, faceUrl) ==
  [ name |-> Trim(fd.name),
    birth_date |-> fd.birthDate,
    gender |-> fd.gender,
    phone |-> StripNonDigits(fd.phone),
    instagram_id |-> IF fd.noInstagram THEN <<"NONE">> ELSE Trim(fd.instagramId),
    height |-> Trim(fd.height),
    weight |-> Trim(fd.weight),
    body_photo_url |-> bodyUrl,
    face_photo_url |-> faceUrl,
    sms_sent |-> FALSE ]

\* the object handed to insert() by variant 2
InsertPayload2(fd, bodyUrl, faceUrl) ==
  [ name |-> Trim(fd.name),
    birth_date |-> Slice(fd.birthDate, 0, 4) \o <<"-">> \o Slice(fd.birthDate, 4, 6)
                     \o <<"-">> \o Slice(fd.birthDate, 6, 8),
    gender |-> fd.gender,
    event_date |-> fd.eventDate,
    phone |-> StripNonDigits(fd.phone),
    location |-> Trim(fd.location),
    job |-> Trim(fd.job),
    height |-> Trim(fd.height),
    weight |-> Trim(fd.weight),
    instagram_id |-> IF fd.noInstagram THEN <<"NONE">> ELSE Trim(fd.instagramId),
    charm |-> Trim(fd.charm),
    preferred_style |-> Trim(fd.preferredStyle),
    participation_type |-> fd.participationType,
    referral_source |-> Trim(fd.referralSource),
    body_photo_url |-> bodyUrl,
    face_photo_url |-> faceUrl,
    sms_sent |-> FALSE ]

\* a payload that stores the body photo's URL in both photo columns
InsertPayload_SameUrlTwice(v, fd, bodyUrl, faceUrl) ==
  IF v = 1 THEN InsertPayload1(fd, bodyUrl, bodyUrl) ELSE InsertPayload2(fd, bodyUrl, bodyUrl)

\* a payload that stores the phone as displayed
InsertPayload_RawPhone(v, fd, bodyUrl, faceUrl) ==
  [(IF v = 1 THEN InsertPayload1(fd, bodyUrl, faceUrl) ELSE InsertPayload2(fd, bodyUrl, faceUrl))
     EXCEPT !.phone = fd.phone]

\* a payload that stores the handle as typed
InsertPayload_UntrimmedHandle(v, fd, bodyUrl, faceUrl) ==
  [(IF v = 1 THEN InsertPayload1(fd, bodyUrl, faceUrl) ELSE InsertPayload2(fd, bodyUrl, faceUrl))
     EXCEPT !.instagram_id = IF fd.noInstagram THEN <<"NONE">> ELSE fd.instagramId]

InsertPayload(v, fd, bodyUrl, faceUrl) ==
  IF v = 1 THEN InsertPayload1(fd, bodyUrl, faceUrl) ELSE InsertPayload2(fd, bodyUrl, faceUrl)

\* the stored row: the payload, the id generated by the store, and the
\* sms_sent_at column, which the insert leaves null
NewRow(id, payload) == payload @@ [id |-> id, sms_sent_at |-> None]

(* ------------------------------- inputs -------------------------------- *)
\* what a user may type into a plain text input: nothing, blanks only (a
\* space and a tab), a name between blanks
TextInputs == {<<>>, <<" ", "\t">>, <<"\t", "K", "i", "m", " ">>}

\* what a user may type into the handle input: any text, also the word the
\* validation message names for the checkbox ("NONE" stands for that word)
HandleInputs == TextInputs \cup {<<"NONE">>}

\* raw values of the phone input (before formatPhone)
PhoneInputs ==
  { <<>>,
    <<"0", "1", "0", "-", "1", "2", "3", "4", "-", "5", "6", "7", "8">>,
    <<"0", "1", "0", "1", "2", "3", "4", "5", "6">>,
    <<"0", "3", "1", "1", "2", "3", "4", "5", "6", "7">>,
    <<"(", "0", "2", ")", " ", "1", "2", "3", "-", "4", "5", "6", "7">>,
    <<"+", "8", "2", "0", "1", "0", "1", "2", "3", "4", "5", "6", "7", "8", "9">> }

\* value of <input type="date">: '' or YYYY-MM-DD
DateValue(y, m, d) == PadNat(y, 4) \o <<"-">> \o PadNat(m, 2) \o <<"-">> \o PadNat(d, 2)

BirthInputs1 == {<<>>} \cup {DateValue(y, 5, 1) : y \in {1992, 1993, 2006, 2007, 2008}}

\* raw values typed into the 8-digit birth date input of variant 2
BirthInputs2 ==
  {<<>>, <<"1", "9", "9", "9", "-", "0", "5", "-", "0", "1">>, <<"1", "9", "9", "9", "0", "5", "0">>}
    \cup {PadNat(y, 4) \o <<"0", "5", "0", "1">> : y \in {1989, 1990, 1991, 1992, 2004, 2005, 2006}}
    \cup {<<"2", "0", "0", "0", "1", "3", "0", "1">>, <<"2", "0", "0", "0", "0", "2", "3", "1">>}

\* the File objects a user may pick
Files == {[name |-> <<"a", ".", "p", "n", "g">>], [name |-> <<"b">>], [name |-> <<"c", ".">>]}

\* EVENT_DATES keys offered by the event picker of variant 2 (two of the four)
EventDateKeys == {"2026-03-14", "2026-03-21"}

\* opt.value of the participation options ("1+2cha", "1bu", "2bu")
ParticipationTypes == {"1+2", "part1"}

\* an error value as the catch block reads it: err.message and
\* err.error_description (<<>> when undefined or ''), and String(err)
Err(message, description, text) ==
  [message |-> message, error_description |-> description, text |-> text]

\* the errors a failing compression, upload or insert yields: Error objects
\* with a message, error results of the store with a message, with a
\* description only, and with neither
CompressErrors ==
  { Err(<<"The file given is not an image">>, <<>>, <<"Error: The file given is not an image">>) }

UploadErrors ==
  { Err(<<"The resource already exists">>, <<>>, <<"StorageApiError: The resource already exists">>) }

InsertErrors ==
  { Err(<<"Failed to fetch">>, <<>>, <<"[object Object]">>),
    Err(<<"Could not find the '", "column", "' of 'registrations'">>, <<>>, <<"[object Object]">>),
    Err(<<>>, <<"described">>, <<"[object Object]">>),
    Err(<<>>, <<>>, <<"[object Object]">>) }

\* clock readings
Times == 1..MaxTime

(* ------------------------------- state --------------------------------- *)
VARIABLES
  variant,        \* which deployment of the form component is running (1 or 2)
  modal,          \* useState modal: "" (null), "terms", "privacy", "refund", "registration"
  prevModal,      \* useState prevModal (variant 2): "" (null) or "registration"
  formData,       \* useState formData
  bodyPhoto,      \* useState bodyPhoto: None or Some(File)
  facePhoto,      \* useState facePhoto
  formErrors,     \* useState formErrors
  submitting,     \* useState submitting
  submitSuccess,  \* useState submitSuccess
  sub,            \* the handleSubmit call in flight: its position and its closure
  table,          \* table `registrations`: the rows, in insertion order
  inv,            \* the dispatcher invocations
  edits           \* number of field edits made so far

formVars == <<variant, modal, prevModal, formData, bodyPhoto, facePhoto, formErrors,
              submitting, submitSuccess, sub, edits>>

vars == <<variant, modal, prevModal, formData, bodyPhoto, facePhoto, formErrors,
          submitting, submitSuccess, sub, table, inv, edits>>

uiVars == <<formData, bodyPhoto, facePhoto, formErrors, submitting, submitSuccess, modal, prevModal>>

\* sub while no handleSubmit call is pending; resetSince tells of a pending
\* call that openRegistration has run since it started
IdleSub ==
  [pc |-> "idle", closure |-> None, resetSince |-> FALSE, comp |-> [body |-> "none", face |-> "none"], ts |-> 0,
   up |-> [body |-> [state |-> "none", path |-> None, error |-> None],
           face |-> [state |-> "none", path |-> None, error |-> None]],
   payload |-> None]

(* --------------------------- form: UI events --------------------------- *)
\* the registration form (not the confirmation view) is rendered
FormVisible == modal = "registration" /\ ~submitSuccess

CanEdit == FormVisible /\ edits < MaxEdits

\* onChange of a plain text input or select: setFormData(p => ({...p, [f]: value}))
SetText(f, value) ==
  /\ CanEdit
  /\ f \in DOMAIN formData
  /\ f = "instagramId" => ~formData.noInstagram        \* input disabled={formData.noInstagram}
  /\ formData' = [formData EXCEPT ![f] = value]
  /\ edits' = edits + 1
  /\ UNCHANGED <<variant, modal, prevModal, bodyPhoto, facePhoto, formErrors, submitting,
                 submitSuccess, sub, table, inv>>

\* gender radio buttons
SetGender(g) ==
  /\ CanEdit
  /\ formData' = [formData EXCEPT !.gender = g]
  /\ edits' = edits + 1
  /\ UNCHANGED <<variant, modal, prevModal, bodyPhoto, facePhoto, formErrors, submitting,
                 submitSuccess, sub, table, inv>>

\* birth date input: variant 1 stores the date input's value, variant 2 keeps
\* the first 8 digits of what was typed
SetBirthDate(raw) ==
  /\ CanEdit
  /\ formData' = [formData EXCEPT !.birthDate =
                    IF variant = 1 THEN raw ELSE Slice(StripNonDigits(raw), 0, 8)]
  /\ edits' = edits + 1
  /\ UNCHANGED <<variant, modal, prevModal, bodyPhoto, facePhoto, formErrors, submitting,
                 submitSuccess, sub, table, inv>>

\* phone input: setFormData(p => ({...p, phone: formatPhone(e.target.value)}))
SetPhone(raw) ==
  /\ CanEdit
  /\ formData' = [formData EXCEPT !.phone = formatPhone(raw)]
  /\ edits' = edits + 1
  /\ UNCHANGED <<variant, modal, prevModal, bodyPhoto, facePhoto, formErrors, submitting,
                 submitSuccess, sub, table, inv>>

\* "no instagram" checkbox: also clears the handle
SetNoInstagram(checked) ==
  /\ CanEdit
  /\ formData' = [formData EXCEPT !.noInstagram = checked, !.instagramId = <<>>]
  /\ edits' = edits + 1
  /\ UNCHANGED <<variant, modal, prevModal, bodyPhoto, facePhoto, formErrors, submitting,
                 submitSuccess, sub, table, inv>>

\* file inputs: if (f) { setBodyPhoto(f); ... }
SetBodyPhoto(f) ==
  /\ CanEdit
  /\ bodyPhoto' = Some(f)
  /\ edits' = edits + 1
  /\ UNCHANGED <<variant, modal, prevModal, formData, facePhoto, formErrors, submitting,
                 submitSuccess, sub, table, inv>>

SetFacePhoto(f) ==
  /\ CanEdit
  /\ facePhoto' = Some(f)
  /\ edits' = edits + 1
  /\ UNCHANGED <<variant, modal, prevModal, formData, bodyPhoto, formErrors, submitting,
                 submitSuccess, sub, table, inv>>

\* variant 2: event date buttons and calendar cells
SetEventDate(key) ==
  /\ CanEdit /\ variant = 2
  /\ formData' = [formData EXCEPT !.eventDate = key]
  /\ edits' = edits + 1
  /\ UNCHANGED <<variant, modal, prevModal, bodyPhoto, facePhoto, formErrors, submitting,
                 submitSuccess, sub, table, inv>>

\* variant 2: participation options, rendered once a gender is selected
SetParticipationType(value) ==
  /\ CanEdit /\ variant = 2
  /\ formData.gender # ""
  /\ formData' = [formData EXCEPT !.participationType = value]
  /\ edits' = edits + 1
  /\ UNCHANGED <<variant, modal, prevModal, bodyPhoto, facePhoto, formErrors, submitting,
                 submitSuccess, sub, table, inv>>

\* variant 2: the four consent checkboxes
SetAgree(f, checked) ==
  /\ CanEdit /\ variant = 2
  /\ f \in {"agreeAlcohol", "agreeTerms", "agreePrivacy", "agreeRefund"}
  /\ formData' = [formData EXCEPT ![f] = checked]
  /\ edits' = edits + 1
  /\ UNCHANGED <<variant, modal, prevModal, bodyPhoto, facePhoto, formErrors, submitting,
                 submitSuccess, sub, table, inv>>

\* the fixed "apply" button: rendered in every state, outside {modal && ...},
\* and its handler has no condition; a handleSubmit call that is pending keeps
\* running and notes that the form it was started from has been reset
openRegistration ==
  /\ formData' = EmptyForm(variant)
  /\ bodyPhoto' = None /\ facePhoto' = None
  /\ formErrors' = NoErrors /\ submitSuccess' = FALSE
  /\ modal' = "registration"
  /\ sub' = IF sub.pc = "idle" THEN sub ELSE [sub EXCEPT !.resetSince = TRUE]
  /\ UNCHANGED <<variant, prevModal, submitting, table, inv, edits>>

\* footer links, rendered in every state: setModal(target)
OpenLegalFromFooter(target) ==
  /\ target \in (IF variant = 1 THEN {"terms", "privacy"} ELSE {"terms", "privacy", "refund"})
  /\ modal' = target
  /\ UNCHANGED <<variant, prevModal, formData, bodyPhoto, facePhoto, formErrors, submitting,
                 submitSuccess, sub, table, inv, edits>>

\* variant 2: "view" links inside the form
openLegalFromForm(target) ==
  /\ variant = 2 /\ FormVisible
  /\ target \in {"terms", "privacy", "refund"}
  /\ prevModal' = "registration"
  /\ modal' = target
  /\ UNCHANGED <<variant, formData, bodyPhoto, facePhoto, formErrors, submitting,
                 submitSuccess, sub, table, inv, edits>>

\* closeModal that returns to the form and keeps prevModal
closeModal_KeepsPrevModal ==
  /\ variant = 2 /\ modal # ""
  /\ IF prevModal # ""
     THEN modal' = prevModal /\ UNCHANGED prevModal
     ELSE modal' = "" /\ UNCHANGED prevModal
  /\ UNCHANGED <<variant, formData, bodyPhoto, facePhoto, formErrors, submitting,
                 submitSuccess, sub, table, inv, edits>>

\* variant 2: overlay click and the close button of the legal modals
closeModal ==
  /\ variant = 2 /\ modal # ""
  /\ IF prevModal # ""
     THEN modal' = prevModal /\ prevModal' = ""
     ELSE modal' = "" /\ UNCHANGED prevModal
  /\ UNCHANGED <<variant, formData, bodyPhoto, facePhoto, formErrors, submitting,
                 submitSuccess, sub, table, inv, edits>>

\* onClick={() => setModal(null)}: every close control of variant 1, the
\* cancel button and the confirmation view's close button of variant 2
SetModalNull ==
  /\ modal # ""
  /\ variant = 2 => modal = "registration"
  /\ modal' = ""
  /\ UNCHANGED <<variant, prevModal, formData, bodyPhoto, facePhoto, formErrors, submitting,
                 submitSuccess, sub, table, inv, edits>>

(* ------------------------ form: handleSubmit --------------------------- *)
\* msg.includes('column')
IncludesColumn(msg) == \E i \in 1..Len(msg) : msg[i] = "column"

\* the text the catch block puts under formErrors.submit: variant 1 shows
\* err?.message || err?.error_description || String(err) after a prefix,
\* variant 2 one of two fixed texts
SubmitMessage(v, err) ==
  IF v = 1
  THEN <<"ERR: ">> \o (IF err.message # <<>> THEN err.message
                       ELSE IF err.error_description # <<>> THEN err.error_description
                       ELSE err.text)
  ELSE IF IncludesColumn(err.message) THEN <<"server_config_error">> ELSE <<"generic_retry_error">>

\* a catch block without the finally clause that re-enables the button
Catch_NoFinally(err) ==
  /\ formErrors' = [k \in {"submit"} |-> SubmitMessage(variant, err)]
  /\ submitting' = submitting
  /\ sub' = IdleSub

\* catch (err) { setFormErrors({submit: ...}) } finally { setSubmitting(false) }
Catch(err) ==
  /\ formErrors' = [k \in {"submit"} |-> SubmitMessage(variant, err)]
  /\ submitting' = FALSE
  /\ sub' = IdleSub

\* handleSubmit that marks the form as submitting before it validates
handleSubmit_SubmittingFirst ==
  /\ FormVisible /\ ~submitting
  /\ LET errors == validateForm(variant, formData, bodyPhoto, facePhoto) IN
       IF HasErrors(errors)
       THEN /\ formErrors' = errors
            /\ submitting' = TRUE
            /\ UNCHANGED sub
       ELSE /\ submitting' = TRUE
            /\ formErrors' = NoErrors
            /\ sub' = [IdleSub EXCEPT !.pc = "compress",
                         !.closure = Some([formData |-> formData, bodyPhoto |-> bodyPhoto[1],
                                           facePhoto |-> facePhoto[1]]),
                         !.comp = [body |-> "pending", face |-> "pending"]]
  /\ UNCHANGED <<variant, modal, prevModal, formData, bodyPhoto, facePhoto, submitSuccess,
                 table, inv, edits>>

\* handleSubmit behind a button that is not disabled while submitting
handleSubmit_ButtonNeverDisabled ==
  /\ FormVisible
  /\ LET errors == validateForm(variant, formData, bodyPhoto, facePhoto) IN
       IF HasErrors(errors)
       THEN /\ formErrors' = errors
            /\ UNCHANGED <<submitting, sub>>
       ELSE /\ submitting' = TRUE
            /\ formErrors' = NoErrors
            /\ sub' = [IdleSub EXCEPT !.pc = "compress",
                         !.closure = Some([formData |-> formData, bodyPhoto |-> bodyPhoto[1],
                                           facePhoto |-> facePhoto[1]]),
                         !.comp = [body |-> "pending", face |-> "pending"]]
  /\ UNCHANGED <<variant, modal, prevModal, formData, bodyPhoto, facePhoto, submitSuccess,
                 table, inv, edits>>

\* click on the submit button (disabled while submitting): validation, then
\* the synchronous part up to the first await, which starts both compressions
handleSubmit ==
  /\ FormVisible /\ ~submitting
  /\ LET errors == validateForm(variant, formData, bodyPhoto, facePhoto) IN
       IF HasErrors(errors)
       THEN /\ formErrors' = errors
            /\ UNCHANGED <<submitting, sub>>
       ELSE /\ submitting' = TRUE
            /\ formErrors' = NoErrors
            /\ sub' = [IdleSub EXCEPT !.pc = "compress",
                         !.closure = Some([formData |-> formData, bodyPhoto |-> bodyPhoto[1],
                                           facePhoto |-> facePhoto[1]]),
                         !.comp = [body |-> "pending", face |-> "pending"]]
  /\ UNCHANGED <<variant, modal, prevModal, formData, bodyPhoto, facePhoto, submitSuccess,
                 table, inv, edits>>

Other(kind) == IF kind = "body" THEN "face" ELSE "body"

\* CompressDone that starts the uploads as soon as one compression has resolved
CompressDone_UploadsEarly(kind, ok, err, now) ==
  /\ sub.pc = "compress" /\ sub.comp[kind] = "pending"
  /\ IF ~ok THEN Catch(err)
     ELSE /\ sub' = [sub EXCEPT !.comp[kind] = "ok", !.pc = "upload", !.ts = now,
                       !.up = [body |-> [state |-> "pending", path |-> None, error |-> None],
                               face |-> [state |-> "pending", path |-> None, error |-> None]]]
          /\ UNCHANGED <<formErrors, submitting>>
  /\ UNCHANGED <<variant, modal, prevModal, formData, bodyPhoto, facePhoto, submitSuccess,
                 table, inv, edits>>

\* one imageCompression promise settles; Promise.all rejects on the first
\* rejection and resolves when both have resolved, after which ts is read and
\* both uploads are started
CompressDone(kind, ok, err, now) ==
  /\ sub.pc = "compress" /\ sub.comp[kind] = "pending"
  /\ IF ~ok THEN Catch(err)
     ELSE IF sub.comp[Other(kind)] = "ok"
     THEN /\ sub' = [sub EXCEPT !.comp[kind] = "ok", !.pc = "upload", !.ts = now,
                       !.up = [body |-> [state |-> "pending", path |-> None, error |-> None],
                               face |-> [state |-> "pending", path |-> None, error |-> None]]]
          /\ UNCHANGED <<formErrors, submitting>>
     ELSE /\ sub' = [sub EXCEPT !.comp[kind] = "ok"]
          /\ UNCHANGED <<formErrors, submitting>>
  /\ UNCHANGED <<variant, modal, prevModal, formData, bodyPhoto, facePhoto, submitSuccess,
                 table, inv, edits>>

\* the compressed file keeps the name of the file it was made from
CompressedFile(kind) == IF kind = "body" THEN sub.closure[1].bodyPhoto ELSE sub.closure[1].facePhoto

\* AfterUploads that looks at the body upload's error only
AfterUploads_IgnoresFaceError(up) ==
  IF up.body.error # None THEN Catch(up.body.error[1])
  ELSE /\ sub' = [sub EXCEPT !.up = up, !.pc = "insert",
                    !.payload = Some(InsertPayload(variant, sub.closure[1].formData,
                                  getPublicUrl(up.body.path[1]),
                                  getPublicUrl(IF up.face.path = None THEN <<"undefined">>
                                               ELSE up.face.path[1])))]
       /\ UNCHANGED <<formErrors, submitting>>

\* what the code does once both uploads have settled (up is the pair of results)
AfterUploads(up) ==
  IF up.body.error # None THEN Catch(up.body.error[1])
  ELSE IF up.face.error # None THEN Catch(up.face.error[1])
  ELSE /\ sub' = [sub EXCEPT !.up = up, !.pc = "insert",
                    !.payload = Some(InsertPayload(variant, sub.closure[1].formData,
                                                   getPublicUrl(up.body.path[1]),
                                                   getPublicUrl(up.face.path[1])))]
       /\ UNCHANGED <<formErrors, submitting>>

\* one upload settles (the blob store is an external service: it stores the
\* object under the key and answers {data: {path: key}, error: null}, or it
\* answers {data: null, error}); the code continues when both have settled
UploadDone(kind, ok, err) ==
  /\ sub.pc = "upload" /\ sub.up[kind].state = "pending"
  /\ LET key == ObjectKey(sub.ts, kind, CompressedFile(kind))
         res == IF ok THEN [state |-> "ok", path |-> Some(key), error |-> None]
                      ELSE [state |-> "error", path |-> None, error |-> Some(err)]
         up  == [sub.up EXCEPT ![kind] = res]
     IN  IF up[Other(kind)].state = "pending"
         THEN sub' = [sub EXCEPT !.up = up] /\ UNCHANGED <<formErrors, submitting>>
         ELSE AfterUploads(up)
  /\ UNCHANGED <<variant, modal, prevModal, formData, bodyPhoto, facePhoto, submitSuccess,
                 table, inv, edits>>

\* the insert returns: the store appended the row, or reports an error
InsertDone(ok, err) ==
  /\ sub.pc = "insert"
  /\ IF ok
     THEN /\ Len(table) < MaxRows
          /\ table' = Append(table, NewRow(Len(table) + 1, sub.payload[1]))
          /\ submitSuccess' = TRUE
          /\ submitting' = FALSE
          /\ sub' = IdleSub
          /\ UNCHANGED formErrors
     ELSE /\ Catch(err)
          /\ UNCHANGED <<table, submitSuccess>>
  /\ UNCHANGED <<variant, modal, prevModal, formData, bodyPhoto, facePhoto, inv, edits>>

(* --------------------------- form: initial fill ------------------------ *)
Kim == <<"K", "i", "m">>

ValidForm(v) ==
  IF v = 1
  THEN [name |-> Kim, birthDate |-> DateValue(1999, 5, 1), gender |-> "male",
        phone |-> formatPhone(<<"0", "1", "0", "1", "1", "1", "1", "2", "2", "2", "2">>),
        instagramId |-> <<"@", "k", "i", "m">>, noInstagram |-> FALSE,
        height |-> <<"1", "7", "5">>, weight |-> <<"7", "0">>]
  ELSE [name |-> Kim, birthDate |-> <<"1", "9", "9", "9", "0", "5", "0", "1">>, gender |-> "male",
        eventDate |-> "2026-03-14",
        phone |-> formatPhone(<<"0", "1", "0", "1", "1", "1", "1", "2", "2", "2", "2">>),
        location |-> <<"S">>, job |-> <<"J">>, height |-> <<"1", "7", "5">>, weight |-> <<"7", "0">>,
        instagramId |-> <<"@", "k", "i", "m">>, noInstagram |-> FALSE,
        charm |-> <<>>, preferredStyle |-> <<>>, participationType |-> "1+2", referralSource |-> <<>>,
        agreeAlcohol |-> TRUE, agreeTerms |-> TRUE, agreePrivacy |-> TRUE, agreeRefund |-> TRUE]

\* form states a user reaches by editing the freshly opened form: the empty
\* form and a completely filled one for either gender
InitFills(v) ==
  {[formData |-> EmptyForm(v), bodyPhoto |-> None, facePhoto |-> None]}
  \cup {[formData |-> [ValidForm(v) EXCEPT !.gender = g],
         bodyPhoto |-> Some([name |-> <<"a", ".", "p", "n", "g">>]),
         facePhoto |-> Some([name |-> <<"c", ".">>])] : g \in {"male", "female"}}

InitForm ==
  /\ variant \in {1, 2}
  /\ modal = "registration" /\ prevModal = ""
  /\ \E fill \in InitFills(variant) :
       formData = fill.formData /\ bodyPhoto = fill.bodyPhoto /\ facePhoto = fill.facePhoto
  /\ formErrors = NoErrors
  /\ submitting = FALSE /\ submitSuccess = FALSE
  /\ sub = IdleSub
  /\ edits = 0

FormEdit ==
  \/ \E f \in {"name", "height", "weight", "instagramId", "location", "job", "charm",
               "preferredStyle", "referralSource"} :
       \E value \in (IF f = "instagramId" THEN HandleInputs ELSE TextInputs) : SetText(f, value)
  \/ \E g \in {"male", "female"} : SetGender(g)
  \/ \E raw \in (IF variant = 1 THEN BirthInputs1 ELSE BirthInputs2) : SetBirthDate(raw)
  \/ \E raw \in PhoneInputs : SetPhone(raw)
  \/ \E checked \in BOOLEAN : SetNoInstagram(checked)
  \/ \E f \in Files : SetBodyPhoto(f)
  \/ \E f \in Files : SetFacePhoto(f)
  \/ \E key \in EventDateKeys : SetEventDate(key)
  \/ \E value \in ParticipationTypes : SetParticipationType(value)
  \/ \E f \in {"agreeAlcohol", "agreeTerms", "agreePrivacy", "agreeRefund"}, checked \in BOOLEAN :
       SetAgree(f, checked)

ModalNext ==
  \/ openRegistration
  \/ \E target \in {"terms", "privacy", "refund"} : OpenLegalFromFooter(target)
  \/ \E target \in {"terms", "privacy", "refund"} : openLegalFromForm(target)
  \/ closeModal
  \/ SetModalNull

SubmitNext ==
  \/ handleSubmit
  \/ \E kind \in {"body", "face"}, ok \in BOOLEAN, err \in CompressErrors, now \in Times :
       CompressDone(kind, ok, err, now)
  \/ \E kind \in {"body", "face"}, ok \in BOOLEAN, err \in UploadErrors : UploadDone(kind, ok, err)
  \/ \E ok \in BOOLEAN, err \in InsertErrors : InsertDone(ok, err)

FormNext == FormEdit \/ ModalNext \/ SubmitNext

InitFormOnly == InitForm /\ table = <<>> /\ inv = <<>>

SpecForm == InitFormOnly /\ [][FormNext]_vars

(* ----------------------------- dispatcher ------------------------------ *)
\* deployment configuration (Deno.env)
SOLAPI_API_KEY == <<"NCSKEY">>

SOLAPI_API_SECRET == <<"SECRET">>

SOLAPI_SENDER == <<"0", "2", "1", "2", "3", "4", "5", "6", "7">>

\* crypto.subtle.sign('HMAC', key, data) with a SHA-256 key made of secret: the
\* MAC is a value determined by (secret, data) and by nothing else
hmacSha256(secret, data) == <<"hmac-sha256(">> \o secret \o <<";">> \o data \o <<")">>

\* encodeHex(bytes): injective and never empty
encodeHex(bytes) == <<"hex(">> \o bytes \o <<")">>

\* `HMAC-SHA256 apiKey=${key}, date=${date}, salt=${salt}, signature=${signature}`
AuthorizationHeader(key, date, salt, signature) ==
  <<"HMAC-SHA256 apiKey=">> \o key \o <<", date=">> \o date \o <<", salt=">> \o salt
    \o <<", signature=">> \o signature

\* getSolapiAuthHeader(), given the clock reading and the random UUID it draws
getSolapiAuthHeader(now, uuid) ==
  LET date == toISOString(now)
      salt == uuid
      signature == hmacSha256(SOLAPI_API_SECRET, date \o salt)
  IN  AuthorizationHeader(SOLAPI_API_KEY, date, salt, encodeHex(signature))

\* the Authorization header the unsigned webhook handler builds inline
UnsignedAuthHeader(now, uuid) ==
  AuthorizationHeader(SOLAPI_API_KEY, toISOString(now), uuid, <<>>)

\* the deposit notice of the webhook handlers; every character outside ASCII
\* is written "#" (one UTF-16 unit each)
NoticePrefix == <<"[", "G", "I", "L", "M", "O", "'", "S", " ", "P", "E", "O", "P", "L", "E", "]", " ">>

NoticeSuffix ==
    <<"#", ",", " ", "#", "#", " ", "#", "#", "#", " ", "#", "#", "#", "#", "#", "#", "#", ".", "\n", "\n">>
    \o <<"#", "#", " ", "#", "#", ":", "\n">>
    \o <<"-", " ", "#", "#", ":", " ", "[", "#", "#", "#", "]", " ", "[", "#", "#", "#", "#", "]", "\n">>
    \o <<"-", " ", "#", "#", ":", " ", "[", "#", "#", "]", "#", "\n">>
    \o <<"-", " ", "#", "#", "#", ":", " ", "[", "#", "#", "#", "#", "]", "\n", "\n">>
    \o <<"#", "#", " ", "#", "#", " ", "#", " ", "#", "#", " ", "#", "#", " ", "#", "#", "#", " ", "#", "#", "#", "#", "#", "#", ".">>

\* a notice cut down to its greeting line
DepositNotice_GreetingOnly(name) == NoticePrefix \o name \o SubSeq(NoticeSuffix, 1, 20)

DepositNotice(name) == NoticePrefix \o name \o NoticeSuffix

\* message.length > 90 ? 'LMS' : 'SMS'
\* a type choice that already sends a 90-character message as LMS
SmsType_LongFrom90(message) == IF Len(message) >= 90 THEN "LMS" ELSE "SMS"

SmsType(message) == IF Len(message) > 90 THEN "LMS" ELSE "SMS"

\* body of the POST to the gateway
GatewayRequest(auth, to, text, type) ==
  [authorization |-> auth, to |-> to, from |-> SOLAPI_SENDER, text |-> text, type |-> type]

\* new Response(JSON.stringify({success: true, smsResult}))
SuccessResponse(smsResult) == [status |-> 200, body |-> [success |-> TRUE, smsResult |-> smsResult]]

\* the catch block: new Response(JSON.stringify({error: String(error)}), {status: 500})
ErrorResponse(error) == [status |-> 500, body |-> [error |-> error]]

BadRequestResponse == [status |-> 400, body |-> [error |-> "phone and message are required"]]

PreflightResponse == [status |-> 200, body |-> [text |-> "ok"]]

\* an update that writes the flag without the timestamp
UpdateRows_FlagOnly(rows, id, now) ==
  [i \in 1..Len(rows) |-> IF rows[i].id = id THEN [rows[i] EXCEPT !.sms_sent = TRUE] ELSE rows[i]]

\* an update that toggles the flag instead of setting it
UpdateRows_Toggle(rows, id, now) ==
  [i \in 1..Len(rows) |->
     IF rows[i].id = id
     THEN [rows[i] EXCEPT !.sms_sent = ~rows[i].sms_sent,
                          !.sms_sent_at = IF rows[i].sms_sent THEN None ELSE Some(toISOString(now))]
     ELSE rows[i]]

\* an update without its .eq('id', id) filter
UpdateRows_NoFilter(rows, id, now) ==
  [i \in 1..Len(rows) |->
     [rows[i] EXCEPT !.sms_sent = TRUE, !.sms_sent_at = Some(toISOString(now))]]

\* supabase.from('registrations').update({sms_sent: true, sms_sent_at}).eq('id', id)
UpdateRows(rows, id, now) ==
  [i \in 1..Len(rows) |->
     IF rows[i].id = id
     THEN [rows[i] EXCEPT !.sms_sent = TRUE, !.sms_sent_at = Some(toISOString(now))]
     ELSE rows[i]]

(* ------------------------- dispatcher: inputs -------------------------- *)
\* crypto.randomUUID() of the n-th invocation: fresh for every request
Uuid(n) == <<"uuid-">> \o NatToStr(n)

\* a phone as the form displays it, a message of n characters
FormattedPhone == <<"0", "1", "0", "-", "1", "1", "1", "1", "-", "2", "2", "2", "2">>

Msg(n) == [i \in 1..n |-> "m"]

\* the record a database webhook carries for a row
RecordOf(row) == [id |-> row.id, name |-> row.name, phone |-> row.phone]

\* a payload that does not come from a row of the table
ForeignRecord == [id |-> 9, name |-> <<>>, phone |-> FormattedPhone]

\* request bodies of the webhook handlers: unparsable, without record, or {record}
WebhookBodies(rows) ==
  {[json |-> FALSE, record |-> None], [json |-> TRUE, record |-> None]}
  \cup {[json |-> TRUE, record |-> Some(RecordOf(rows[i]))] : i \in 1..Len(rows)}
  \cup {[json |-> TRUE, record |-> Some(ForeignRecord)]}

\* request bodies of the manual handler: a missing property and an empty
\* string are both falsy, registrationId may be absent
ManualBodies(rows) ==
  {[json |-> FALSE, phone |-> <<>>, message |-> <<>>, registrationId |-> None]}
  \cup [json : {TRUE}, phone : {<<>>, FormattedPhone}, message : {<<>>, Msg(90), Msg(91)},
        registrationId : {None, Some(9)} \cup {Some(rows[i].id) : i \in 1..Len(rows)}]
  \cup {[json |-> TRUE, phone |-> <<"-">>, message |-> Msg(90), registrationId |-> None]}

\* what the gateway may answer: any status, a JSON body or not
GatewayResponses ==
  { [status |-> 200, json |-> TRUE,  value |-> "statusCode:2000"],
    [status |-> 400, json |-> TRUE,  value |-> "errorCode:SignatureDoesNotMatch"],
    [status |-> 502, json |-> FALSE, value |-> "<html>Bad Gateway</html>"] }

Handlers == {"webhook_unsigned", "manual", "webhook_signed"}

\* an invocation: its position (pc), its locals (target id; signing: what the
\* handler holds while getSolapiAuthHeader awaits; request: the gateway request
\* in flight; the gateway's response; smsResult; sentAt: the clock reading put
\* into the update), what it did (fetch, update) and its response
NewInvocation(handler) ==
  [handler |-> handler, pc |-> "start", target |-> None, signing |-> None, request |-> None,
   fetch |-> "none", gatewayResponse |-> None, smsResult |-> None, sentAt |-> None,
   update |-> "none", response |-> None]

\* the handler returns: its locals are gone; what it did (fetch, update) and
\* its response remain
Respond(invocation, response) ==
  [invocation EXCEPT !.pc = "done", !.response = Some(response), !.target = None,
                     !.signing = None, !.request = None, !.gatewayResponse = None,
                     !.smsResult = None, !.sentAt = None]

\* what a signing handler holds from the reading of clock and salt until the
\* signature is there
Signing(now, uuid, to, text) == [now |-> now, uuid |-> uuid, to |-> to, text |-> text]

(* ------------------------- dispatcher: handlers ------------------------ *)
\* WebhookReceive that answers at once when the row is already marked sent
WebhookReceive_SkipsSentRow(handler, body, now) ==
  LET uuid == Uuid(Len(inv) + 1)
      call == NewInvocation(handler)
  IN  IF ~body.json THEN Respond(call, ErrorResponse("SyntaxError: Unexpected token"))
      ELSE IF body.record = None
      THEN Respond(call, ErrorResponse("TypeError: Cannot destructure property 'id'"))
      ELSE IF \E r \in 1..Len(table) : table[r].id = body.record[1].id /\ table[r].sms_sent
      THEN Respond(call, SuccessResponse("already sent"))
      ELSE LET record == body.record[1]
               message == DepositNotice(record.name)
           IN  IF handler = "webhook_signed"
               THEN [call EXCEPT !.pc = "importKey", !.target = Some(record.id),
                                 !.signing = Some(Signing(now, uuid, record.phone, message))]
               ELSE [call EXCEPT !.pc = "fetch", !.fetch = "pending", !.target = Some(record.id),
                                 !.request = Some(GatewayRequest(UnsignedAuthHeader(now, uuid),
                                                                 record.phone, message, "LMS"))]

\* a webhook handler from the parsed body to its first await: it destructures
\* the record and composes the notice; the signed handler then reads clock and
\* salt and awaits importKey, the unsigned handler builds its header inline
\* and calls fetch
WebhookReceive(handler, body, now) ==
  LET uuid == Uuid(Len(inv) + 1)
      call == NewInvocation(handler)
  IN  IF ~body.json THEN Respond(call, ErrorResponse("SyntaxError: Unexpected token"))
      ELSE IF body.record = None
      THEN Respond(call, ErrorResponse("TypeError: Cannot destructure property 'id'"))
      ELSE LET record == body.record[1]
               message == DepositNotice(record.name)
           IN  IF handler = "webhook_signed"
               THEN [call EXCEPT !.pc = "importKey", !.target = Some(record.id),
                                 !.signing = Some(Signing(now, uuid, record.phone, message))]
               ELSE [call EXCEPT !.pc = "fetch", !.fetch = "pending", !.target = Some(record.id),
                                 !.request = Some(GatewayRequest(UnsignedAuthHeader(now, uuid),
                                                                 record.phone, message, "LMS"))]

\* ManualReceive whose required-field check looks at phone only
ManualReceive_PhoneOnly(method, body, now) ==
  LET uuid == Uuid(Len(inv) + 1)
      call == NewInvocation("manual")
  IN  IF method = "OPTIONS" THEN Respond(call, PreflightResponse)
      ELSE IF ~body.json THEN Respond(call, ErrorResponse("SyntaxError: Unexpected token"))
      ELSE IF body.phone = <<>> THEN Respond(call, BadRequestResponse)
      ELSE [call EXCEPT !.pc = "importKey", !.target = body.registrationId,
                        !.signing = Some(Signing(now, uuid, StripNonDigits(body.phone),
                                                 body.message))]

\* the manual handler from the parsed body to its first await: the preflight
\* branch, the required-field check, cleanPhone, then clock and salt are read
\* and importKey is awaited
ManualReceive(method, body, now) ==
  LET uuid == Uuid(Len(inv) + 1)
      call == NewInvocation("manual")
  IN  IF method = "OPTIONS" THEN Respond(call, PreflightResponse)
      ELSE IF ~body.json THEN Respond(call, ErrorResponse("SyntaxError: Unexpected token"))
      ELSE IF body.phone = <<>> \/ body.message = <<>> THEN Respond(call, BadRequestResponse)
      ELSE LET cleanPhone == StripNonDigits(body.phone)
           IN  [call EXCEPT !.pc = "importKey", !.target = body.registrationId,
                            !.signing = Some(Signing(now, uuid, cleanPhone, body.message))]

\* a request reaches a webhook deployment
StartWebhook(limit, handler, body, now) ==
  /\ Len(inv) < limit
  /\ handler \in {"webhook_unsigned", "webhook_signed"}
  /\ inv' = Append(inv, WebhookReceive(handler, body, now))
  /\ UNCHANGED <<formVars, table>>

\* a request reaches the manual-approval deployment
StartManual(limit, method, body, now) ==
  /\ Len(inv) < limit
  /\ inv' = Append(inv, ManualReceive(method, body, now))
  /\ UNCHANGED <<formVars, table>>

\* await crypto.subtle.importKey(...) settles: the key is there, or it throws
AfterImportKey(call, ok) ==
  IF ok THEN [call EXCEPT !.pc = "sign"]
  ELSE Respond(call, ErrorResponse("OperationError: importKey"))

ImportKeyDone(i, ok) ==
  /\ i \in 1..Len(inv) /\ inv[i].pc = "importKey"
  /\ inv' = [inv EXCEPT ![i] = AfterImportKey(inv[i], ok)]
  /\ UNCHANGED <<formVars, table>>

\* await crypto.subtle.sign(...) settles: the header is assembled, the manual
\* handler chooses smsType, and fetch is called; or sign throws
AfterSign(call, ok) ==
  IF ~ok THEN Respond(call, ErrorResponse("OperationError: sign"))
  ELSE LET held == call.signing[1]
           authHeader == getSolapiAuthHeader(held.now, held.uuid)
           smsType == IF call.handler = "manual" THEN SmsType(held.text) ELSE "LMS"
       IN  [call EXCEPT !.pc = "fetch", !.fetch = "pending", !.signing = None,
                        !.request = Some(GatewayRequest(authHeader, held.to, held.text, smsType))]

SignDone(i, ok) ==
  /\ i \in 1..Len(inv) /\ inv[i].pc = "sign"
  /\ inv' = [inv EXCEPT ![i] = AfterSign(inv[i], ok)]
  /\ UNCHANGED <<formVars, table>>

\* AfterFetch without the jump to the catch block when fetch rejects
AfterFetch_IgnoresThrow(call, threw, res) ==
  [call EXCEPT !.pc = "json", !.fetch = IF threw THEN "threw" ELSE "resolved",
               !.request = None, !.gatewayResponse = Some(res)]

\* await fetch(...) settles (the gateway request in flight is over): a rejected
\* fetch goes to the catch block, a response is held and smsResponse.json() is
\* awaited
AfterFetch(call, threw, res) ==
  IF threw
  THEN Respond([call EXCEPT !.fetch = "threw"], ErrorResponse("TypeError: fetch failed"))
  ELSE [call EXCEPT !.pc = "json", !.fetch = "resolved", !.request = None,
                    !.gatewayResponse = Some(res)]

FetchDone(i, threw, res) ==
  /\ i \in 1..Len(inv) /\ inv[i].pc = "fetch"
  /\ inv' = [inv EXCEPT ![i] = AfterFetch(inv[i], threw, res)]
  /\ UNCHANGED <<formVars, table>>

\* AfterJson that issues the update although the gateway's body could not be read
AfterJson_UpdateOnUnparsable(call, now) ==
  LET res == call.gatewayResponse[1]
      got == [call EXCEPT !.fetch = IF res.json THEN "parsed" ELSE "unparsable",
                          !.smsResult = Some(res.value)]
  IN  IF call.handler = "manual" /\ call.target = None
      THEN Respond(got, SuccessResponse(res.value))
      ELSE [got EXCEPT !.pc = "update", !.update = "pending", !.sentAt = Some(now)]

\* AfterJson that treats a gateway status of 400 or more as a failure
AfterJson_ErrorOn4xx(call, now) ==
  LET res == call.gatewayResponse[1] IN
    IF ~res.json
    THEN Respond([call EXCEPT !.fetch = "unparsable"], ErrorResponse("SyntaxError: Unexpected token"))
    ELSE LET got == [call EXCEPT !.fetch = "parsed", !.smsResult = Some(res.value)] IN
         IF res.status >= 400 THEN Respond(got, ErrorResponse("Error: gateway rejected"))
         ELSE IF call.handler = "manual" /\ call.target = None
         THEN Respond(got, SuccessResponse(res.value))
         ELSE [got EXCEPT !.pc = "update", !.update = "pending", !.sentAt = Some(now)]

\* AfterJson that marks the row only when the gateway answered 200
AfterJson_OnlyOn200(call, now) ==
  LET res == call.gatewayResponse[1] IN
    IF ~res.json
    THEN Respond([call EXCEPT !.fetch = "unparsable"], ErrorResponse("SyntaxError: Unexpected token"))
    ELSE LET got == [call EXCEPT !.fetch = "parsed", !.smsResult = Some(res.value)] IN
         IF res.status # 200 \/ (call.handler = "manual" /\ call.target = None)
         THEN Respond(got, SuccessResponse(res.value))
         ELSE [got EXCEPT !.pc = "update", !.update = "pending", !.sentAt = Some(now)]

\* await smsResponse.json() settles (fetch becomes "parsed" or "unparsable"):
\* a body that is not JSON goes to the catch block; otherwise the body is kept
\* as smsResult, the clock is read and the row update is issued (the manual
\* handler: only if registrationId is truthy, else it responds at once)
AfterJson(call, now) ==
  LET res == call.gatewayResponse[1] IN
    IF ~res.json
    THEN Respond([call EXCEPT !.fetch = "unparsable"], ErrorResponse("SyntaxError: Unexpected token"))
    ELSE LET got == [call EXCEPT !.fetch = "parsed", !.smsResult = Some(res.value)] IN
         IF call.handler = "manual" /\ call.target = None
         THEN Respond(got, SuccessResponse(res.value))
         ELSE [got EXCEPT !.pc = "update", !.update = "pending", !.sentAt = Some(now)]

JsonDone(i, now) ==
  /\ i \in 1..Len(inv) /\ inv[i].pc = "json"
  /\ inv' = [inv EXCEPT ![i] = AfterJson(inv[i], now)]
  /\ UNCHANGED <<formVars, table>>

\* UpdateDone that answers success also when the update call throws
UpdateDone_ThrowSwallowed(i, outcome) ==
  /\ i \in 1..Len(inv) /\ inv[i].pc = "update"
  /\ table' = IF outcome = "ok" THEN UpdateRows(table, inv[i].target[1], inv[i].sentAt[1])
              ELSE table
  /\ inv' = [inv EXCEPT ![i] =
               Respond([inv[i] EXCEPT !.update = outcome], SuccessResponse(inv[i].smsResult[1]))]
  /\ UNCHANGED formVars

\* the awaited update settles: applied by the store ("ok"), refused with an
\* {error} result that the code does not look at ("error"), or the call throws
UpdateDone(i, outcome) ==
  /\ i \in 1..Len(inv) /\ inv[i].pc = "update"
  /\ table' = IF outcome = "ok" THEN UpdateRows(table, inv[i].target[1], inv[i].sentAt[1])
              ELSE table
  /\ inv' = [inv EXCEPT ![i] =
               Respond([inv[i] EXCEPT !.update = outcome],
                       IF outcome = "threw" THEN ErrorResponse("Error: update failed")
                       ELSE SuccessResponse(inv[i].smsResult[1]))]
  /\ UNCHANGED formVars

\* the step that reads the gateway's body will go on to read the clock
ReadsClock(call) ==
  /\ call.pc = "json" /\ call.gatewayResponse[1].json
  /\ ~(call.handler = "manual" /\ call.target = None)

\* the dispatcher steps, for at most limit invocations; an input is drawn only
\* on the paths that read it (the clock once the body was accepted, the
\* gateway's answer when fetch did not throw, the clock of the update when the
\* update is issued)
SmsSteps(limit) ==
  \/ \E handler \in {"webhook_unsigned", "webhook_signed"}, body \in WebhookBodies(table) :
       \E now \in (IF body.record # None THEN Times ELSE {1}) :
         StartWebhook(limit, handler, body, now)
  \/ \E method \in {"OPTIONS", "POST"} :
       \E body \in (IF method = "OPTIONS" THEN {b \in ManualBodies(table) : ~b.json}
                    ELSE ManualBodies(table)) :
         \E now \in (IF method = "POST" /\ body.phone # <<>> /\ body.message # <<>>
                      THEN Times ELSE {1}) :
           StartManual(limit, method, body, now)
  \/ \E i \in 1..limit, ok \in BOOLEAN : ImportKeyDone(i, ok)
  \/ \E i \in 1..limit, ok \in BOOLEAN : SignDone(i, ok)
  \/ \E i \in 1..limit, threw \in BOOLEAN :
       \E res \in (IF threw THEN {r \in GatewayResponses : ~r.json} ELSE GatewayResponses) :
         FetchDone(i, threw, res)
  \/ \E i \in 1..limit :
       \E now \in (IF i <= Len(inv) /\ ReadsClock(inv[i]) THEN Times ELSE {1}) : JsonDone(i, now)
  \/ \E i \in 1..limit, outcome \in {"ok", "error", "threw"} : UpdateDone(i, outcome)

SmsNext == SmsSteps(MaxInv)

\* every call an invocation awaits (importKey, sign, the gateway call, reading
\* its body, the update) returns or throws
ExternalCallsSettle ==
  /\ WF_vars(\E i \in 1..MaxInv, ok \in BOOLEAN : ImportKeyDone(i, ok))
  /\ WF_vars(\E i \in 1..MaxInv, ok \in BOOLEAN : SignDone(i, ok))
  /\ WF_vars(\E i \in 1..MaxInv, threw \in BOOLEAN, res \in GatewayResponses :
               FetchDone(i, threw, res))
  /\ WF_vars(\E i \in 1..MaxInv, now \in Times : JsonDone(i, now))
  /\ WF_vars(\E i \in 1..MaxInv, outcome \in {"ok", "error", "threw"} : UpdateDone(i, outcome))

(* --------------------------- specifications ---------------------------- *)
\* rows the form has inserted (one per gender), as the dispatcher finds them
FormRows(v) ==
  LET url(kind) == getPublicUrl(ObjectKey(1, kind, [name |-> <<"a", ".", "p", "n", "g">>]))
  IN  << NewRow(1, InsertPayload(v, ValidForm(v), url("body"), url("face"))),
         NewRow(2, InsertPayload(v, [ValidForm(v) EXCEPT !.gender = "female"],
                                 url("body"), url("face"))) >>

\* the dispatchers alone, over a table the form has filled
InitSms ==
  /\ variant = 2
  /\ modal = "" /\ prevModal = ""
  /\ formData = EmptyForm(variant) /\ bodyPhoto = None /\ facePhoto = None
  /\ formErrors = NoErrors
  /\ submitting = FALSE /\ submitSuccess = FALSE
  /\ sub = IdleSub
  /\ edits = 0
  /\ table = FormRows(variant)
  /\ inv = <<>>

SpecSms == InitSms /\ [][SmsNext]_vars

\* the dispatchers over a table filled by either variant of the form
InitSmsAny ==
  /\ variant \in {1, 2}
  /\ modal = "" /\ prevModal = ""
  /\ formData = EmptyForm(variant) /\ bodyPhoto = None /\ facePhoto = None
  /\ formErrors = NoErrors
  /\ submitting = FALSE /\ submitSuccess = FALSE
  /\ sub = IdleSub
  /\ edits = 0
  /\ table = FormRows(variant)
  /\ inv = <<>>

\* the dispatchers with external calls that settle
SpecSmsFair == InitSmsAny /\ [][SmsSteps(MaxInvWithForm)]_vars /\ ExternalCallsSettle

\* what the table may hold when a browser session starts: nothing, or a row
\* of an earlier session, not yet notified or already notified
InitTables(v) ==
  {<<>>, <<FormRows(v)[1]>>,
   <<[FormRows(v)[1] EXCEPT !.sms_sent = TRUE, !.sms_sent_at = Some(toISOString(1))]>>}

\* the whole system: form submissions and dispatcher invocations interleaved
Init == InitForm /\ table \in InitTables(variant) /\ inv = <<>>

Next == SubmitNext \/ SmsSteps(MaxInvWithForm)

Spec == Init /\ [][Next]_vars

(* ------------------------------- claims -------------------------------- *)

\* C1: in every handler, when the gateway call throws, the invocation answers
\* HTTP 500 and never issues the row update: the step in which the fetch is
\* rejected ends the invocation with status 500 and leaves the table as it
\* was, and an invocation whose fetch threw has issued no update.
C1_ThrowGives500NoUpdate ==
  /\ [](\A i \in 1..Len(inv) :
          inv[i].fetch = "threw" =>
            /\ inv[i].pc = "done"
            /\ inv[i].response[1].status = 500
            /\ inv[i].update = "none")
  /\ [][\A i \in 1..Len(inv) :
          (inv[i].pc = "fetch" /\ inv'[i].fetch = "threw") => table' = table]_vars

\* each of two handlers has had its gateway call throw, and no row is marked
C1_Witness ==
  /\ \E i, j \in 1..Len(inv) :
       /\ inv[i].handler = "manual" /\ inv[i].fetch = "threw"
       /\ inv[j].handler # "manual" /\ inv[j].fetch = "threw"
  /\ \A r \in 1..Len(table) : ~table[r].sms_sent

\* C2: in every reachable state of the table, under any interleaving of form
\* submissions and dispatcher invocations, a row has sms_sent = true if and
\* only if its sms_sent_at is populated.
C2_SentIffSentAt ==
  \A r \in 1..Len(table) : table[r].sms_sent <=> (table[r].sms_sent_at # None)

\* the table holds a notified row next to a row the form has just inserted
C2_Witness ==
  /\ Len(table) = 2
  /\ table[1].sms_sent /\ table[1].sms_sent_at # None
  /\ ~table[2].sms_sent /\ table[2].sms_sent_at = None

\* C3: a row's notification status only moves from unsent to sent: no step of
\* a dispatcher invocation or of a form submission takes sms_sent of an
\* existing row from true to false (or removes the row).
C3_SentIsStable ==
  [][\A r \in 1..Len(table) :
       table[r].sms_sent => (r <= Len(table') /\ table'[r].sms_sent)]_vars

\* an update is pending on a row that is already marked sent
C3_Witness ==
  \E i \in 1..Len(inv), r \in 1..Len(table) :
    /\ inv[i].pc = "update" /\ inv[i].target = Some(table[r].id)
    /\ table[r].sms_sent

\* C4 as stated: whenever the gateway call completes with a response, whatever
\* its status or body, the handler attempts the row update.
C4_Original ==
  [][\A i \in 1..Len(inv) :
       (inv[i].fetch = "resolved" /\ inv'[i].fetch \in {"parsed", "unparsable"})
       => inv'[i].update = "pending"]_vars

\* C4 as amended: whenever the gateway call completes with a response whose
\* body parses as JSON, whatever its status code and content, the handler
\* attempts the row update, except that the manual handler attempts it only
\* when the request carried a registrationId.
C4_UpdateAfterJsonResponse ==
  [][\A i \in 1..Len(inv) :
       /\ (inv[i].pc = "fetch" /\ inv'[i].fetch = "resolved") => inv'[i].pc = "json"
       /\ ( /\ inv[i].pc = "json"
            /\ inv'[i].fetch = "parsed"
            /\ (inv[i].handler = "manual" => inv[i].target # None) )
          => (inv'[i].pc = "update" /\ inv'[i].update = "pending")]_vars

\* an update is pending after the gateway answered with an error status
C4_Witness ==
  \E i \in 1..Len(inv) :
    /\ inv[i].update = "pending"
    /\ inv[i].gatewayResponse # None /\ inv[i].gatewayResponse[1].status = 400

\* C5: if the body-photo upload or the face-photo upload returns an error, no
\* insert is issued, even when the other upload succeeded: an insert is in
\* flight only with both uploads successful, a submission with a failed upload
\* never proceeds to the insert, and a row appears only out of an insert.
C5_NoInsertAfterUploadError ==
  /\ [](sub.pc = "insert" => (sub.up.body.state = "ok" /\ sub.up.face.state = "ok"))
  /\ [][(sub.pc = "upload" /\ (sub.up.body.state = "error" \/ sub.up.face.state = "error"))
          => (sub'.pc \in {"upload", "idle"} /\ table' = table)]_vars
  /\ [][Len(table') > Len(table) => sub.pc = "insert"]_vars

\* a submission of variant 1 ended with the upload error shown and no row
C5_Witness ==
  /\ variant = 1 /\ sub.pc = "idle" /\ table = <<>>
  /\ formErrors = [k \in {"submit"} |-> <<"ERR: ", "The resource already exists">>]

\* C6: every row the form inserts has both photo URLs non-empty, each the
\* public URL of the path returned by the corresponding successful upload of
\* the same submission (keys <ts>_body.<ext> and <ts>_face.<ext>), and has
\* sms_sent = false.
C6_RowPhotoUrls ==
  /\ [](\A r \in 1..Len(table) :
          table[r].body_photo_url # <<>> /\ table[r].face_photo_url # <<>>)
  /\ [][Len(table') > Len(table) =>
          LET row == table'[Len(table')]
              stem(kind) == NatToStr(sub.ts) \o <<"_", kind, ".">>
              keyOk(kind) ==
                /\ sub.up[kind].state = "ok"
                /\ Len(sub.up[kind].path[1]) > Len(stem(kind))
                /\ SubSeq(sub.up[kind].path[1], 1, Len(stem(kind))) = stem(kind)
          IN  /\ keyOk("body") /\ keyOk("face")
              /\ row.body_photo_url = getPublicUrl(sub.up.body.path[1])
              /\ row.face_photo_url = getPublicUrl(sub.up.face.path[1])
              /\ row.sms_sent = FALSE]_vars

\* a row holds the URLs of the two objects of one submission
C6_Witness ==
  \E r \in 1..Len(table) :
    /\ table[r].body_photo_url = getPublicUrl(<<"1", "_", "body", ".", "p", "n", "g">>)
    /\ table[r].face_photo_url = getPublicUrl(<<"1", "_", "face", ".", "j", "p", "g">>)
    /\ ~table[r].sms_sent

\* the field names validateForm may report
FieldNames ==
  {"name", "gender", "eventDate", "birthDate", "phone", "location", "job", "height", "weight",
   "instagramId", "participationType", "bodyPhoto", "facePhoto",
   "agreeAlcohol", "agreeTerms", "agreePrivacy", "agreeRefund"}

\* C7: when validateForm returns at least one error, handleSubmit stores the
\* errors keyed by field name and returns: no compression, upload or insert
\* starts and submitting is not set.
C7_InvalidFormStopsSubmit ==
  [][LET errors == validateForm(variant, formData, bodyPhoto, facePhoto) IN
       (sub.pc = "idle" /\ DOMAIN errors # {}) =>
         /\ sub' = sub /\ submitting' = submitting /\ table' = table
         /\ handleSubmit => (formErrors' = errors /\ DOMAIN errors \subseteq FieldNames)]_vars

\* a rejected submission: several field errors shown, nothing in flight
C7_Witness ==
  /\ Cardinality(DOMAIN formErrors) >= 2
  /\ DOMAIN formErrors \subseteq FieldNames
  /\ formErrors = validateForm(variant, formData, bodyPhoto, facePhoto)
  /\ ~submitting /\ sub = IdleSub /\ table = <<>>

\* the eligible birth years per variant and gender
EligibleYears(v, g) ==
  IF v = 1 THEN (IF g = "male" THEN 1993..2006 ELSE 1993..2007)
  ELSE (IF g = "male" THEN 1990..2004 ELSE 1992..2005)

\* the birth year of a form's birthDate and of a row's birth_date
FormBirthYear(v, fd) ==
  IF v = 1 THEN parseInt(SplitFirst(fd.birthDate, "-")) ELSE parseInt(Slice(fd.birthDate, 0, 4))

RowBirthYear(row) == parseInt(SplitFirst(row.birth_date, "-"))

\* C8: for every birth year outside the eligible range of the selected gender
\* validation sets a birthDate error and no network call occurs (no
\* submission is in flight for such a form); every inserted row has a gender
\* selected and a birth year inside that gender's range.
C8_BirthYearInRange ==
  /\ LET y == FormBirthYear(variant, formData) IN
       (formData.gender # "" /\ y # None /\ y[1] \notin EligibleYears(variant, formData.gender))
         => "birthDate" \in DOMAIN validateForm(variant, formData, bodyPhoto, facePhoto)
  /\ sub.pc # "idle" =>
       LET fd == sub.closure[1].formData
           y == FormBirthYear(variant, fd)
       IN  fd.gender \in {"male", "female"} /\ y # None /\ y[1] \in EligibleYears(variant, fd.gender)
  /\ \A r \in 1..Len(table) :
       /\ table[r].gender \in {"male", "female"}
       /\ RowBirthYear(table[r]) # None
       /\ RowBirthYear(table[r])[1] \in EligibleYears(variant, table[r].gender)

\* a submission was rejected for a birth year outside the gender's range
C8_Witness ==
  /\ "birthDate" \in DOMAIN formErrors
  /\ formErrors["birthDate"] \in {<<"male_93_06_only">>, <<"female_93_07_only">>,
                                  <<"male_90_04_only">>, <<"female_92_05_only">>}
  /\ formData.gender # ""
  /\ FormBirthYear(variant, formData)[1] \notin EligibleYears(variant, formData.gender)
  /\ sub = IdleSub /\ table = <<>>

\* C9: after any edits of the phone field and a successful submission, the
\* phone written to the row contains only digit characters.
C9_RowPhoneDigitsOnly ==
  /\ \A r \in 1..Len(table) : \A i \in 1..Len(table[r].phone) : table[r].phone[i] \in Digits
  /\ sub.payload # None =>
       \A i \in 1..Len(sub.payload[1].phone) : sub.payload[1].phone[i] \in Digits

\* 010-1234-5678 was typed and the row holds 01012345678
C9_Witness ==
  \E r \in 1..Len(table) :
    table[r].phone = <<"0", "1", "0", "1", "2", "3", "4", "5", "6", "7", "8">>

\* C10 as stated: every gateway request of every handler carries
\* 'HMAC-SHA256 apiKey=K, date=D, salt=S, signature=G' with G the hex-encoded
\* HMAC-SHA256, keyed by the API secret, of D followed by S.
C10_SignedAuthorization ==
  \A i \in 1..Len(inv) :
    inv[i].request # None =>
      \E now \in Times, n \in 1..MaxInv :
        LET D == toISOString(now)
            S == Uuid(n)
        IN  inv[i].request[1].authorization =
              AuthorizationHeader(SOLAPI_API_KEY, D, S,
                                  encodeHex(hmacSha256(SOLAPI_API_SECRET, D \o S)))

\* the invocation was answered 400 and has neither sent a request nor issued an update
AnsweredBadRequest(call) ==
  /\ call.pc = "done" /\ call.response = Some(BadRequestResponse)
  /\ call.request = None /\ call.fetch = "none" /\ call.update = "none"

\* C11: a POST to the manual-approval handler whose JSON body lacks phone or
\* message (missing or empty) is answered with HTTP 400; that invocation sends
\* no gateway request and issues no row update; only such a request gets 400.
\* (The handler is applied to every such body in the states where a further
\* request can arrive.)
C11_MissingFieldGives400 ==
  /\ Len(inv) < MaxInv =>
       \A body \in {b \in ManualBodies(table) : b.json /\ (b.phone = <<>> \/ b.message = <<>>)} :
         \A now \in Times : AnsweredBadRequest(ManualReceive("POST", body, now))
  /\ \A i \in 1..Len(inv) :
       (inv[i].response # None /\ inv[i].response[1].status = 400) =>
         /\ inv[i].handler = "manual"
         /\ inv[i].fetch = "none" /\ inv[i].update = "none"

\* a manual invocation was answered 400 and every row is still unsent
C11_Witness ==
  /\ \E i \in 1..Len(inv) :
       /\ inv[i].handler = "manual" /\ inv[i].pc = "done"
       /\ inv[i].response[1] = BadRequestResponse
       /\ inv[i].fetch = "none" /\ inv[i].update = "none"
  /\ \A r \in 1..Len(table) : ~table[r].sms_sent

\* C12 as stated: a failure of the database update is reported to the caller
\* as a 500.
C12_Original ==
  \A i \in 1..Len(inv) :
    inv[i].update \in {"error", "threw"} =>
      (inv[i].pc = "done" /\ inv[i].response[1].status = 500)

\* C12: provided each external call returns or throws, every invocation ends;
\* an invocation has a response exactly when it has ended, and an ended
\* invocation never changes (one response); an exception at any step (request
\* JSON parsing, signing, the gateway call, parsing the gateway response, a
\* throwing database update) yields status 500 with an error body; a database
\* update that fails by returning an error result is not looked at and the
\* invocation answers 200 with success: true.
C12_ExceptionsGive500 ==
  /\ [](\A i \in 1..Len(inv) :
          /\ (inv[i].pc = "done") <=> (inv[i].response # None)
          /\ (inv[i].fetch \in {"threw", "unparsable"} \/ inv[i].update = "threw") =>
               /\ inv[i].pc = "done"
               /\ inv[i].response[1].status = 500
               /\ DOMAIN inv[i].response[1].body = {"error"}
          /\ inv[i].update = "error" =>
               /\ inv[i].pc = "done"
               /\ inv[i].response[1].status = 200
               /\ inv[i].response[1].body.success)
  /\ [](\A now \in Times :
          /\ \A handler \in {"webhook_unsigned", "webhook_signed"}, body \in WebhookBodies(table) :
               (~body.json \/ body.record = None) =>
                 WebhookReceive(handler, body, now).response[1].status = 500
          /\ \A body \in ManualBodies(table) :
               ~body.json => ManualReceive("POST", body, now).response[1].status = 500)
  /\ [](\A i \in 1..Len(inv) :
          /\ inv[i].pc = "importKey" => AfterImportKey(inv[i], FALSE).response[1].status = 500
          /\ inv[i].pc = "sign" => AfterSign(inv[i], FALSE).response[1].status = 500)
  /\ [][\A i \in 1..Len(inv) : inv[i].pc = "done" => inv'[i] = inv[i]]_vars
  /\ \A i \in 1..MaxInvWithForm : (Len(inv) >= i) ~> (Len(inv) >= i /\ inv[i].pc = "done")

\* an invocation answered 200 although its update returned an error, and the
\* row it targeted is still unsent
C12_Witness ==
  \E i \in 1..Len(inv) :
    /\ inv[i].update = "error" /\ inv[i].response[1].status = 200
    /\ \A r \in 1..Len(table) : ~table[r].sms_sent

\* C13 as stated: whenever the gateway response body could be read, the
\* invocation answers 200 with success: true.
C13_Original ==
  \A i \in 1..Len(inv) :
    (inv[i].fetch = "parsed" /\ inv[i].pc = "done") =>
      (inv[i].response[1].status = 200 /\ inv[i].response[1].body.success)

\* C13: for a gateway response whose body can be read, whatever its status or
\* result, the handler keeps the body as smsResult and, unless the row update
\* that follows throws, answers 200 with {success: true, smsResult}, smsResult
\* being the gateway body unchanged; when the update throws it answers 500.
C13_GatewayBodyRelayed ==
  /\ [](\A i \in 1..Len(inv) :
          /\ (inv[i].pc = "json" /\ inv[i].gatewayResponse[1].json) =>
               \A now \in Times :
                 LET res == inv[i].gatewayResponse[1]
                     call == AfterJson(inv[i], now)
                 IN  \/ /\ call.pc = "update"
                        /\ call.smsResult = Some(res.value)
                     \/ /\ call.pc = "done"
                        /\ call.response[1] =
                             [status |-> 200, body |-> [success |-> TRUE, smsResult |-> res.value]]
          /\ (inv[i].fetch = "parsed" /\ inv[i].pc = "done") =>
               IF inv[i].update = "threw"
               THEN inv[i].response[1].status = 500
               ELSE inv[i].response[1].status = 200 /\ inv[i].response[1].body.success)
  /\ [][\A i \in 1..Len(inv) :
          (inv[i].pc = "update" /\ inv'[i].pc = "done" /\ inv'[i].update # "threw") =>
            inv'[i].response[1] =
              [status |-> 200, body |-> [success |-> TRUE, smsResult |-> inv[i].smsResult[1]]]]_vars

\* a gateway answer of status 400 was relayed with status 200 and success: true
C13_Witness ==
  \E i \in 1..Len(inv) :
    /\ inv[i].fetch = "parsed" /\ inv[i].pc = "done"
    /\ inv[i].response[1] =
         [status |-> 200,
          body |-> [success |-> TRUE, smsResult |-> "errorCode:SignatureDoesNotMatch"]]

\* the invocation once the signing calls it awaits have returned (as it is
\* when it awaits none)
WithSignature(call) ==
  IF call.pc = "importKey" THEN AfterSign(AfterImportKey(call, TRUE), TRUE) ELSE call

\* the invocation has a gateway request in flight for the row
RequestInFlightFor(call, row) ==
  /\ call.pc = "fetch" /\ call.request # None
  /\ call.request[1].to = row.phone
  /\ call.target = Some(row.id)

\* C14: dispatch gives no at-most-once guarantee: in every state, whatever the
\* row's sms_sent and whatever other invocations exist for it, a webhook
\* delivery for a row and a manual request naming it each send a gateway
\* request (once the signature, where one is made, is there); no handler reads
\* sms_sent before sending. (Stated for every state in which a further request
\* can arrive.)
C14_NoAtMostOnce ==
  Len(inv) < MaxInv =>
  \A r \in 1..Len(table), now \in Times :
    /\ \A handler \in {"webhook_unsigned", "webhook_signed"} :
         RequestInFlightFor(
           WithSignature(
             WebhookReceive(handler, [json |-> TRUE, record |-> Some(RecordOf(table[r]))], now)),
           table[r])
    /\ \A body \in {b \in ManualBodies(table) : /\ b.json /\ b.phone # <<>> /\ b.message # <<>>
                                                /\ b.registrationId = Some(table[r].id)} :
         LET call == WithSignature(ManualReceive("POST", body, now))
         IN  call.pc = "fetch" /\ call.request # None /\ call.target = Some(table[r].id)

\* a second SMS for a row that is already marked sent: the first invocation
\* has sent, updated the row and ended; the second one has its gateway request
\* for the same row in flight
C14_Witness ==
  /\ Len(inv) = 2 /\ Len(table) = 2
  /\ inv[1].pc = "done" /\ inv[1].fetch = "parsed" /\ inv[1].update = "ok"
  /\ table[1].sms_sent /\ ~table[2].sms_sent
  /\ inv[2].pc = "fetch" /\ inv[2].request # None
  /\ inv[2].target = Some(table[1].id)

\* the dispatcher update of invocation i is applied to row r in this step
UpdateApplied(i, r) ==
  /\ inv[i].pc = "update" /\ inv'[i].update = "ok"
  /\ inv[i].target = Some(table[r].id)

\* C15 as stated: a row is mutated exactly once, so the dispatcher update is
\* never applied to a row that an earlier update has already marked sent.
C15_Original ==
  [][\A i \in 1..Len(inv), r \in 1..Len(table) :
       UpdateApplied(i, r) => ~table[r].sms_sent]_vars

\* C15 as amended: over any sequence of form submissions and dispatcher
\* invocations, a row is created once by a form submission (appended with a
\* fresh id, unsent), is never deleted, and is changed only by dispatcher
\* updates, which set sms_sent and sms_sent_at and leave every other column as
\* inserted; a row may be updated never or several times.
C15_RowLifecycle ==
  /\ [](\A r, q \in 1..Len(table) : table[r].id = table[q].id => r = q)
  /\ [][/\ Len(table') >= Len(table)
        /\ \A r \in 1..Len(table) :
             /\ [table'[r] EXCEPT !.sms_sent = table[r].sms_sent,
                                  !.sms_sent_at = table[r].sms_sent_at] = table[r]
             /\ table'[r] # table[r] =>
                  /\ table'[r].sms_sent /\ table'[r].sms_sent_at # None
                  /\ \E i \in 1..Len(inv) : UpdateApplied(i, r)
        /\ Len(table') > Len(table) =>
             /\ Len(table') = Len(table) + 1
             /\ sub.pc = "insert" /\ sub'.pc = "idle" /\ submitSuccess'
             /\ table'[Len(table')] = NewRow(table'[Len(table')].id, sub.payload[1])
             /\ ~table'[Len(table')].sms_sent
             /\ \A r \in 1..Len(table) : table[r].id # table'[Len(table')].id]_vars

\* a row the form has just inserted has been marked sent by a dispatcher
\* update, next to an older row that keeps its own notification status
C15_Witness ==
  /\ Len(table) = 2 /\ submitSuccess
  /\ table[2].sms_sent /\ ~table[1].sms_sent
  /\ Len(inv) = 1 /\ inv[1].update = "ok"

\* the request carries the message, typed by its length
TypedByLength(request, message) ==
  /\ request.text = message
  /\ request.type = (IF Len(message) <= 90 THEN "SMS" ELSE "LMS")
  /\ message = Msg(90) => request.type = "SMS"
  /\ message = Msg(91) => request.type = "LMS"

\* C16: in the manual-approval handler the gateway request's type is 'SMS'
\* exactly when the message has at most 90 characters and 'LMS' otherwise: a
\* 90-character message goes out as SMS, a 91-character one as LMS, and the
\* request carries the message itself. (The handler is applied to every
\* accepted body in the states where a further request can arrive.)
C16_TypeByLength ==
  /\ \A i \in 1..Len(inv) :
       (inv[i].handler = "manual" /\ inv[i].request # None) =>
         (inv[i].request[1].type = "SMS" <=> Len(inv[i].request[1].text) <= 90)
  /\ Len(inv) < MaxInv =>
       \A body \in {b \in ManualBodies(table) : b.json /\ b.phone # <<>> /\ b.message # <<>>} :
         \A now \in Times :
           TypedByLength(WithSignature(ManualReceive("POST", body, now)).request[1], body.message)

\* two manual requests in flight, one with a 90-character message sent as
\* SMS and one with a 91-character message sent as LMS
C16_Witness ==
  \E i, j \in 1..Len(inv) :
    /\ inv[i].handler = "manual" /\ inv[i].request # None
    /\ Len(inv[i].request[1].text) = 90 /\ inv[i].request[1].type = "SMS"
    /\ inv[j].handler = "manual" /\ inv[j].request # None
    /\ Len(inv[j].request[1].text) = 91 /\ inv[j].request[1].type = "LMS"

\* the string holds digit characters only
DigitsOnly(s) == \A k \in 1..Len(s) : s[k] \in Digits

\* C17: the recipient ('to') of every gateway request sent by any handler
\* contains only digit characters, whatever formatting the phone of the
\* incoming webhook record or manual request has.
C17_RecipientDigitsOnly ==
  \A i \in 1..Len(inv) : inv[i].request # None => DigitsOnly(inv[i].request[1].to)

\* what the handlers do keep: the manual handler strips the phone, the
\* webhook handlers pass the record's phone through as received
C17_ManualStripsWebhookPassesThrough ==
  /\ \A i \in 1..Len(inv) :
       (inv[i].handler = "manual" /\ inv[i].request # None) => DigitsOnly(inv[i].request[1].to)
  /\ \A body \in WebhookBodies(table), handler \in {"webhook_unsigned", "webhook_signed"},
        now \in Times :
       body.record # None =>
         WithSignature(WebhookReceive(handler, body, now)).request[1].to = body.record[1].phone

\* a webhook invocation has a gateway request in flight whose recipient is
\* the record's phone with its hyphens
C17_Witness ==
  \E i \in 1..Len(inv) :
    /\ inv[i].handler \in {"webhook_unsigned", "webhook_signed"}
    /\ inv[i].request # None
    /\ inv[i].request[1].to = FormattedPhone
    /\ ~DigitsOnly(inv[i].request[1].to)

\* the step in which the submission in flight ends without an inserted row
SubmissionFails ==
  /\ sub.pc \in {"compress", "upload", "insert"} /\ sub'.pc = "idle"
  /\ table' = table

\* C18: the confirmation state is entered only by the step in which the insert
\* returns without error; the step in which a compression, an upload or the
\* insert fails leaves submitSuccess false, makes formErrors exactly
\* {submit: message}, leaves formData and both selected photos as they are and
\* sets submitting to false, so that the submit button works again.
C18_FailureKeepsForm ==
  /\ [](sub.pc # "idle" => (submitting /\ ~submitSuccess))
  /\ [][/\ (submitSuccess' /\ ~submitSuccess) =>
             (sub.pc = "insert" /\ table' = Append(table, NewRow(Len(table) + 1, sub.payload[1])))
        /\ SubmissionFails =>
             /\ ~submitSuccess'
             /\ DOMAIN formErrors' = {"submit"}
             /\ formErrors'.submit \in
                  {SubmitMessage(variant, err) : err \in CompressErrors \cup UploadErrors \cup InsertErrors}
             /\ formData' = formData /\ bodyPhoto' = bodyPhoto /\ facePhoto' = facePhoto
             /\ ~submitting'
             /\ modal' = "registration" => (FormVisible /\ ~submitting)']_vars

\* a filled form after a failed submission: the message is shown, the fields
\* and photos are still there and the button is enabled
C18_Witness ==
  /\ DOMAIN formErrors = {"submit"}
  /\ sub.pc = "idle" /\ ~submitting /\ ~submitSuccess
  /\ modal = "registration"
  /\ formData.name # <<>> /\ bodyPhoto # None /\ facePhoto # None
  /\ ~HasErrors(validateForm(variant, formData, bodyPhoto, facePhoto))

\* C19 as stated: the stored instagram_id is the sentinel exactly when the
\* no-handle flag was set at submission.
C19_Original ==
  sub.payload # None =>
    (sub.payload[1].instagram_id = <<"NONE">> <=> sub.closure[1].formData.noInstagram)

\* C19 as amended: the instagram_id handed to the insert is the sentinel
\* whenever the no-handle flag was set at submission, and otherwise is the
\* typed handle, trimmed and non-empty (it is the sentinel text itself when the
\* user typed that word); every stored row's instagram_id is non-empty and
\* trimmed; a form with the flag unset and an empty or whitespace-only handle
\* is rejected by validation and never submitted.
C19_InstagramIdStored ==
  /\ sub.payload # None =>
       LET fd == sub.closure[1].formData
           ig == sub.payload[1].instagram_id
       IN  /\ fd.noInstagram => ig = <<"NONE">>
           /\ ~fd.noInstagram => (ig = Trim(fd.instagramId) /\ ig # <<>>)
           /\ ig = Trim(ig)
  /\ \A r \in 1..Len(table) :
       table[r].instagram_id # <<>> /\ table[r].instagram_id = Trim(table[r].instagram_id)
  /\ (~formData.noInstagram /\ Trim(formData.instagramId) = <<>>) =>
       "instagramId" \in DOMAIN validateForm(variant, formData, bodyPhoto, facePhoto)
  /\ sub.closure # None =>
       (sub.closure[1].formData.noInstagram \/ Trim(sub.closure[1].formData.instagramId) # <<>>)

\* a row was inserted from a form whose no-handle flag was set (setting the
\* flag had cleared the handle): it holds the sentinel
C19_Witness ==
  /\ Len(table) = 1 /\ submitSuccess
  /\ formData.noInstagram /\ formData.instagramId = <<>>
  /\ table[1].instagram_id = <<"NONE">>

\* C20: within one invocation at most one gateway request and at most one row
\* update are issued, in that order: the request is issued once, by the step
\* that has the header (the unsigned handler: the step that parsed the body),
\* the update is issued only in the step that has read the body of the gateway
\* response, a call that has settled (or was never issued when the invocation
\* ended) is never issued again, an invocation that has answered does nothing
\* more, and the table changes only by the update of an invocation whose
\* gateway call was read.
C20_OneRequestThenOneUpdate ==
  /\ [](\A i \in 1..Len(inv) :
          /\ inv[i].pc \in {"importKey", "sign", "fetch", "json", "update", "done"}
          /\ inv[i].pc \in {"importKey", "sign"} => (inv[i].fetch = "none" /\ inv[i].update = "none")
          /\ (inv[i].pc = "fetch") <=> (inv[i].fetch = "pending")
          /\ (inv[i].fetch = "pending") <=> (inv[i].request # None)
          /\ (inv[i].pc = "json") <=> (inv[i].fetch = "resolved")
          /\ (inv[i].pc = "update") <=> (inv[i].update = "pending")
          /\ inv[i].update # "none" => inv[i].fetch = "parsed")
  /\ [][/\ Len(inv') >= Len(inv)
        /\ \A i \in 1..Len(inv) :
             /\ (inv'[i].fetch = "pending" /\ inv[i].fetch # "pending") =>
                  (inv[i].pc = "sign" /\ inv[i].fetch = "none")
             /\ inv[i].fetch = "pending" => inv'[i].fetch \in {"pending", "threw", "resolved"}
             /\ inv[i].fetch = "resolved" => inv'[i].fetch \in {"resolved", "parsed", "unparsable"}
             /\ inv[i].fetch \in {"threw", "parsed", "unparsable"} => inv'[i].fetch = inv[i].fetch
             /\ (inv[i].fetch = "none" /\ inv[i].pc = "done") => inv'[i].fetch = "none"
             /\ (inv'[i].update = "pending" /\ inv[i].update # "pending") =>
                  (inv[i].pc = "json" /\ inv[i].update = "none" /\ inv'[i].fetch = "parsed")
             /\ inv[i].update \notin {"none", "pending"} => inv'[i].update = inv[i].update
             /\ inv[i].pc = "done" => inv'[i] = inv[i]
        /\ table' # table =>
             \E i \in 1..Len(inv) :
               /\ inv[i].pc = "update" /\ inv[i].fetch = "parsed"
               /\ inv'[i].pc = "done" /\ inv'[i].update = "ok"
               /\ table' = UpdateRows(table, inv[i].target[1], inv[i].sentAt[1])]_vars

\* one invocation has gone through request, response and update and marked
\* its row; another has failed at the gateway's response and ended without
\* an update, its row still unsent
C20_Witness ==
  /\ Len(inv) = 2 /\ Len(table) = 2
  /\ inv[1].pc = "done" /\ inv[1].fetch = "parsed" /\ inv[1].update = "ok"
  /\ inv[2].pc = "done" /\ inv[2].fetch = "unparsable" /\ inv[2].update = "none"
  /\ inv[2].response[1].status = 500
  /\ table[1].sms_sent /\ ~table[2].sms_sent

\* C21: the steps of handleSubmit are strictly ordered: while a compression
\* is outstanding no upload has started; uploads run only with both
\* compressions resolved; the insert is in flight only with both uploads
\* successful; the step in which a compression fails ends the submission with
\* no upload started and no row inserted, and a row appears only out of the
\* insert step.
C21_CompressUploadInsertOrder ==
  /\ [](/\ sub.pc \in {"idle", "compress", "upload", "insert"}
        /\ sub.pc = "idle" => sub = IdleSub
        /\ sub.pc = "compress" =>
             /\ \A k \in {"body", "face"} : sub.comp[k] \in {"pending", "ok"} /\ sub.up[k].state = "none"
             /\ \E k \in {"body", "face"} : sub.comp[k] = "pending"
             /\ sub.payload = None
        /\ sub.pc = "upload" =>
             /\ \A k \in {"body", "face"} :
                  sub.comp[k] = "ok" /\ sub.up[k].state \in {"pending", "ok", "error"}
             /\ \E k \in {"body", "face"} : sub.up[k].state = "pending"
             /\ sub.payload = None
        /\ sub.pc = "insert" =>
             /\ \A k \in {"body", "face"} : sub.comp[k] = "ok" /\ sub.up[k].state = "ok"
             /\ sub.payload # None)
  /\ [][/\ (sub.pc = "compress" /\ sub'.pc # "compress") =>
             \/ sub'.pc = "upload" /\ sub'.comp.body = "ok" /\ sub'.comp.face = "ok"
             \/ sub' = IdleSub /\ table' = table /\ DOMAIN formErrors' = {"submit"}
        /\ (sub.pc = "upload" /\ sub'.pc # "upload") => sub'.pc \in {"insert", "idle"}
        /\ sub'.pc = "insert" => sub.pc \in {"upload", "insert"}
        /\ sub'.pc = "upload" => sub.pc \in {"compress", "upload"}
        /\ table' # table => (sub.pc = "insert" /\ sub'.pc = "idle")]_vars

\* both compressions have resolved, the body upload has succeeded and the face
\* upload is still outstanding: no insert has been issued
C21_Witness ==
  /\ sub.pc = "upload"
  /\ sub.comp.body = "ok" /\ sub.comp.face = "ok"
  /\ sub.up.body.state = "ok" /\ sub.up.face.state = "pending"
  /\ sub.payload = None /\ table = <<>>

\* applicant names a webhook record may carry, the empty name included
NoticeNames == TextInputs \cup {Kim}

\* C22: for every applicant name, the empty name included, the composed
\* deposit notice is longer than 90 characters (115 characters plus the name),
\* so the fixed type 'LMS' of the webhook handlers is the type the length rule
\* selects; every webhook request in flight carries such a notice as LMS.
C22_WebhookTypeMatchesLengthRule ==
  /\ \A i \in 1..Len(inv) :
       (inv[i].handler \in {"webhook_unsigned", "webhook_signed"} /\ inv[i].request # None) =>
         /\ inv[i].request[1].type = "LMS"
         /\ Len(inv[i].request[1].text) > 90
         /\ SmsType(inv[i].request[1].text) = inv[i].request[1].type
  /\ Len(inv) < MaxInv =>
       \A name \in NoticeNames :
         /\ Len(DepositNotice(name)) = 115 + Len(name)
         /\ SmsType(DepositNotice(name)) = "LMS"

\* a webhook request for a record with the empty name is in flight: its
\* notice has 115 characters and goes out as LMS
C22_Witness ==
  \E i \in 1..Len(inv) :
    /\ inv[i].handler \in {"webhook_unsigned", "webhook_signed"}
    /\ inv[i].request # None
    /\ inv[i].request[1].text = DepositNotice(<<>>)
    /\ Len(inv[i].request[1].text) = 115
    /\ inv[i].request[1].type = "LMS"

\* the step in which invocation i answers its caller with success: true
\* after its row update has settled
AnswersSuccessAfterUpdate(i) ==
  /\ inv[i].pc = "update" /\ inv'[i].pc = "done"
  /\ inv'[i].response[1].status = 200 /\ inv'[i].response[1].body.success

\* C23: whenever a webhook handler, or the manual-approval handler called with
\* a registrationId, answers success: true, the target row has sms_sent = true
\* and sms_sent_at populated at the time of the response; an update that did
\* not take effect is never reported as success.
C23_SuccessMeansRowMarked ==
  [][\A i \in 1..Len(inv) :
       AnswersSuccessAfterUpdate(i) =>
         /\ inv'[i].update = "ok"
         /\ \E r \in 1..Len(table') :
              /\ table'[r].id = inv[i].target[1]
              /\ table'[r].sms_sent /\ table'[r].sms_sent_at # None]_vars

\* what the handlers do keep: an update that throws is answered 500, and an
\* update the store applied to an existing row leaves that row marked when
\* success is answered
C23_AppliedUpdateMarksRow ==
  [][\A i \in 1..Len(inv) :
       /\ (inv[i].pc = "update" /\ inv'[i].update = "threw") => inv'[i].response[1].status = 500
       /\ (AnswersSuccessAfterUpdate(i) /\ inv'[i].update = "ok") =>
            \A r \in 1..Len(table') :
              table'[r].id = inv[i].target[1] =>
                (table'[r].sms_sent /\ table'[r].sms_sent_at # None)]_vars

\* the manual handler, called with a row's registrationId, has answered
\* success: true although the store refused the update: the row is unsent
C23_Witness ==
  /\ Len(inv) = 1 /\ inv[1].handler = "manual"
  /\ inv[1].pc = "done" /\ inv[1].update = "error"
  /\ inv[1].response[1].status = 200 /\ inv[1].response[1].body.success
  /\ \A r \in 1..Len(table) : ~table[r].sms_sent /\ table[r].sms_sent_at = None

\* C24: at most one form submission is in flight at any time: submitting is
\* true exactly while a submission is in flight (also while the modal is
\* closed and after it is reopened); a submission starts only from the visible
\* form with none in flight, and the one in flight is never replaced by
\* another; a row is inserted only by the step that enters the confirmation
\* state, and the confirmation state is left only by the reset that empties
\* the form, so one filled form gives at most one row.
C24_OneSubmissionInFlight ==
  /\ [](/\ submitting <=> sub.pc # "idle"
        /\ submitSuccess => sub.pc = "idle")
  /\ [][/\ (sub.pc = "idle" /\ sub'.pc # "idle") =>
             (~submitting /\ FormVisible /\ sub'.pc = "compress"
                /\ sub'.closure = Some([formData |-> formData, bodyPhoto |-> bodyPhoto[1],
                                        facePhoto |-> facePhoto[1]]))
        /\ (sub.pc # "idle" /\ sub'.pc # "idle") => sub'.closure = sub.closure
        /\ Len(table') > Len(table) =>
             (Len(table') = Len(table) + 1 /\ submitting /\ ~submitting' /\ submitSuccess')
        /\ (submitSuccess /\ ~submitSuccess') =>
             (formData' = EmptyForm(variant) /\ bodyPhoto' = None /\ facePhoto' = None)]_vars

\* the modal was closed and reopened while a submission is in flight: the
\* form is empty again, submitting is still true and the button is disabled
C24_Witness ==
  /\ sub.pc \in {"compress", "upload", "insert"} /\ submitting
  /\ modal = "registration" /\ ~submitSuccess
  /\ formData = EmptyForm(variant) /\ bodyPhoto = None
  /\ sub.closure[1].formData # formData

\* the form was reset by openRegistration after the submission in flight had
\* started
ResetSinceSubmit == sub.pc # "idle" /\ sub.resetSince

\* C25: after openRegistration has reset the form, a submission still in
\* flight from before the modal was closed and reopened neither switches the
\* freshly opened form to the confirmation state nor writes its error into it.
C25_StaleSubmissionIgnored ==
  [][(ResetSinceSubmit /\ sub'.pc = "idle") =>
       (submitSuccess' = submitSuccess /\ formErrors' = formErrors)]_vars

\* the reopened, still empty form shows the confirmation state of the
\* submission that was started before the modal was closed
C25_Witness ==
  /\ modal = "registration" /\ submitSuccess
  /\ formData = EmptyForm(variant) /\ bodyPhoto = None /\ facePhoto = None
  /\ sub.pc = "idle" /\ Len(table) = 1
  /\ table[1].name = Kim

\* the reopened, still empty form shows the error of the submission that was
\* started before the modal was closed
C25_WitnessError ==
  /\ modal = "registration" /\ ~submitSuccess
  /\ formData = EmptyForm(variant) /\ bodyPhoto = None /\ facePhoto = None
  /\ sub.pc = "idle" /\ DOMAIN formErrors = {"submit"}

\* C26: every gateway request sent by the manual-approval handler has a
\* non-empty recipient and a non-empty message text, for every request body
\* that passes the handler's required-field check.
C26_ManualRequestNonEmpty ==
  \A i \in 1..Len(inv) :
    (inv[i].handler = "manual" /\ inv[i].request # None) =>
      (inv[i].request[1].to # <<>> /\ inv[i].request[1].text # <<>>)

\* what the manual handler does keep: the text of its request is non-empty,
\* and the recipient is the digits of the phone, which is empty when the phone
\* passed the check without holding a digit
C26_ManualTextNonEmpty ==
  /\ \A i \in 1..Len(inv) :
       (inv[i].handler = "manual" /\ inv[i].request # None) =>
         (inv[i].request[1].text # <<>> /\ DigitsOnly(inv[i].request[1].to))
  /\ Len(inv) < MaxInv =>
       \A body \in {b \in ManualBodies(table) : b.json /\ b.phone # <<>> /\ b.message # <<>>} :
         \A now \in Times :
           WithSignature(ManualReceive("POST", body, now)).request[1].to = StripNonDigits(body.phone)

\* a manual request is in flight whose recipient is the empty string
C26_Witness ==
  \E i \in 1..Len(inv) :
    /\ inv[i].handler = "manual" /\ inv[i].pc = "fetch"
    /\ inv[i].request[1].to = <<>>
    /\ inv[i].request[1].text # <<>>

\* the value is what formatPhone makes of some input: at most 11 digits, a
\* hyphen after the 3rd and after the 7th digit when more digits follow
IsFormattedPhone(s) ==
  LET digits == StripNonDigits(s) IN
    /\ Len(digits) <= 11
    /\ s = (IF Len(digits) <= 3 THEN digits
            ELSE IF Len(digits) <= 7
            THEN SubSeq(digits, 1, 3) \o <<"-">> \o SubSeq(digits, 4, Len(digits))
            ELSE SubSeq(digits, 1, 3) \o <<"-">> \o SubSeq(digits, 4, 7) \o <<"-">>
                 \o SubSeq(digits, 8, Len(digits)))

\* C27: every row the form inserts has a phone of exactly 10 or 11 digits:
\* after any sequence of edits the phone field holds formatPhone output (at
\* most the first 11 digits of the input, hyphens after the 3rd and the 7th
\* digit), validation rejects a phone with fewer than 10 digits, and the
\* submission in flight and every row hold 10 or 11 digits.
C27_RowPhoneTenOrElevenDigits ==
  /\ IsFormattedPhone(formData.phone)
  /\ CanEdit =>
       \A raw \in PhoneInputs :
         /\ IsFormattedPhone(formatPhone(raw))
         /\ StripNonDigits(formatPhone(raw)) = SubSeq(StripNonDigits(raw), 1, Min(11, Len(StripNonDigits(raw))))
  /\ (sub.pc = "idle" /\ Len(StripNonDigits(formData.phone)) < 10) =>
       "phone" \in DOMAIN validateForm(variant, formData, bodyPhoto, facePhoto)
  /\ sub.closure # None => Len(StripNonDigits(sub.closure[1].formData.phone)) \in {10, 11}
  /\ sub.payload # None =>
       (Len(sub.payload[1].phone) \in {10, 11} /\ DigitsOnly(sub.payload[1].phone))
  /\ \A r \in 1..Len(table) : Len(table[r].phone) \in {10, 11} /\ DigitsOnly(table[r].phone)

\* a row was inserted from a form whose phone had been typed with ten digits
C27_Witness ==
  \E r \in 1..Len(table) :
    /\ table[r].phone = <<"0", "3", "1", "1", "2", "3", "4", "5", "6", "7">>
    /\ formData.phone = <<"0", "3", "1", "-", "1", "2", "3", "4", "-", "5", "6", "7">>

\* what variant 2 requires besides the fields of variant 1
Variant2Extras(fd) ==
  /\ fd.agreeAlcohol /\ fd.agreeTerms /\ fd.agreePrivacy /\ fd.agreeRefund
  /\ fd.eventDate # "" /\ fd.participationType # ""
  /\ Trim(fd.location) # <<>> /\ Trim(fd.job) # <<>>

\* C28: in the second form variant no row is inserted unless, at submission
\* time, all four consent flags are true, an event date and a participation
\* type are selected, and location and job are non-empty: a form lacking one
\* of them is rejected by validation, the submission in flight was started
\* from a form that has them all, and every row holds an event date, a
\* participation type, a location and a job.
C28_Variant2RequiresConsents ==
  variant = 2 =>
    /\ (sub.pc = "idle" /\ ~Variant2Extras(formData)) =>
         HasErrors(validateForm(variant, formData, bodyPhoto, facePhoto))
    /\ sub.closure # None => Variant2Extras(sub.closure[1].formData)
    /\ sub.payload # None =>
         /\ sub.payload[1].event_date = sub.closure[1].formData.eventDate
         /\ sub.payload[1].participation_type = sub.closure[1].formData.participationType
    /\ \A r \in 1..Len(table) :
         /\ table[r].event_date # "" /\ table[r].participation_type # ""
         /\ table[r].location # <<>> /\ table[r].job # <<>>

\* variant 2 has inserted a row from a form with all consents given, after
\* the participation type had been changed
C28_Witness ==
  /\ variant = 2 /\ Len(table) = 1 /\ submitSuccess
  /\ Variant2Extras(formData)
  /\ formData.participationType = "part1"
  /\ table[1].participation_type = "part1"

\* days of month m in year y of the Gregorian calendar
DaysInMonth(y, m) ==
  IF m \in {4, 6, 9, 11} THEN 30
  ELSE IF m = 2 THEN (IF (y % 4 = 0 /\ y % 100 # 0) \/ y % 400 = 0 THEN 29 ELSE 28)
  ELSE 31

\* year, month and day of a YYYY-MM-DD value
DateParts(s) ==
  [y |-> parseInt(SubSeq(s, 1, 4)), m |-> parseInt(SubSeq(s, 6, 7)), d |-> parseInt(SubSeq(s, 9, 10))]

IsCalendarDate(s) ==
  /\ Len(s) = 10 /\ s[5] = "-" /\ s[8] = "-"
  /\ LET p == DateParts(s) IN
       /\ p.y # None /\ p.m # None /\ p.d # None
       /\ p.m[1] \in 1..12
       /\ p.d[1] \in 1..DaysInMonth(p.y[1], p.m[1])

\* C29: in the second form variant every inserted row's birth_date, built as
\* YYYY-MM-DD from the 8-digit input, is a real calendar date.
C29_BirthDateIsCalendarDate ==
  variant = 2 => \A r \in 1..Len(table) : IsCalendarDate(table[r].birth_date)

\* what variant 2 does keep: a row's birth_date is YYYY-MM-DD with a year in
\* 1980..2010, a month in 1..12 and a day in 1..31
C29_BirthDateFieldsInRange ==
  variant = 2 =>
    \A r \in 1..Len(table) :
      LET s == table[r].birth_date IN
        /\ Len(s) = 10 /\ s[5] = "-" /\ s[8] = "-"
        /\ DateParts(s).y[1] \in 1980..2010
        /\ DateParts(s).m[1] \in 1..12
        /\ DateParts(s).d[1] \in 1..31

\* variant 2 has inserted a row whose birth_date is the 31st of February
C29_Witness ==
  /\ variant = 2 /\ Len(table) = 1
  /\ table[1].birth_date = <<"2", "0", "0", "0", "-", "0", "2", "-", "3", "1">>
  /\ ~IsCalendarDate(table[1].birth_date)

LegalModals == {"terms", "privacy", "refund"}

\* C30 as stated: in the second form variant, closing a legal modal that was
\* opened from inside the registration form returns to the registration form
\* with formData, photos and errors unchanged and clears prevModal, whereas
\* closing a legal modal opened from the footer leaves no modal open; prevModal
\* is non-null only while a legal modal opened from the form is displayed, and
\* it is set only by opening a legal modal from the form.
C30_LegalModalReturnsToForm ==
  /\ [](/\ prevModal \in {"", "registration"}
        /\ prevModal # "" => (variant = 2 /\ modal \in LegalModals))
  /\ [][/\ (variant = 2 /\ modal \in LegalModals /\ modal' # modal) =>
             /\ prevModal' = ""
             /\ modal' = (IF prevModal # "" THEN "registration" ELSE "")
             /\ formData' = formData /\ bodyPhoto' = bodyPhoto /\ facePhoto' = facePhoto
             /\ formErrors' = formErrors /\ submitSuccess' = submitSuccess
        /\ (prevModal = "" /\ prevModal' # "") =>
             /\ modal = "registration" /\ modal' \in LegalModals
             /\ formData' = formData /\ bodyPhoto' = bodyPhoto /\ facePhoto' = facePhoto
             /\ formErrors' = formErrors]_vars

\* what variant 2 does keep: prevModal is set only by opening a legal modal
\* from the form, and the step that clears it shows the registration form with
\* formData, photos and errors as they were
C30_PrevModalRestoresForm ==
  /\ [](prevModal \in {"", "registration"} /\ (prevModal # "" => variant = 2))
  /\ [][/\ (prevModal = "" /\ prevModal' # "") =>
             /\ modal = "registration" /\ modal' \in LegalModals
             /\ formData' = formData /\ bodyPhoto' = bodyPhoto /\ facePhoto' = facePhoto
             /\ formErrors' = formErrors
        /\ (prevModal # "" /\ prevModal' = "") =>
             /\ modal # "" /\ modal' = "registration"
             /\ formData' = formData /\ bodyPhoto' = bodyPhoto /\ facePhoto' = facePhoto
             /\ formErrors' = formErrors /\ submitSuccess' = submitSuccess]_vars

\* the refund rules are displayed over a filled form that shows field errors
\* of a rejected submission; prevModal remembers the form
C30_WitnessFromForm ==
  /\ variant = 2 /\ modal = "refund" /\ prevModal = "registration"
  /\ HasErrors(formErrors) /\ "submit" \notin DOMAIN formErrors
  /\ bodyPhoto # None /\ formData.name # <<>>

\* the apply button was used while a legal modal opened from the form was
\* displayed: the emptied registration form is shown and prevModal still
\* remembers a form to return to
C30_Witness ==
  /\ variant = 2 /\ modal = "registration" /\ prevModal = "registration"
  /\ formData = EmptyForm(variant) /\ bodyPhoto = None /\ facePhoto = None

====
